---- MODULE Spec2Model ----
(***************************************************************************)
(* Adaptive streaming of levels of detail: the ObjectManager (catalog),    *)
(* its MuseumObjects, the SpeedManager queues and the six Strategies of    *)
(* Babylon.js/master, as one state machine on the single-threaded event    *)
(* loop.  One action is one run-to-completion step of the event loop: a    *)
(* frame callback, a timer, or the completion of a download or a decode    *)
(* together with every continuation (microtask) it resumes.                *)
(***************************************************************************)
EXTENDS Integers, Sequences, FiniteSets, TLC

(***************************************************************************)
(* Bounds of the model and the static catalog descriptor.                  *)
(***************************************************************************)
\* the objects of the catalog the ObjectManager is built from
Objects == 1..2

\* the largest number of levels of an object
MaxLevels == 3

\* metadata.nb_levels of each object (objects differ in their number of levels)
nb_levels(o) == IF o = 1 THEN MaxLevels ELSE 2

\* indices the arrays levels[] / asked[] can hold: 0..nb_levels, the last
\* one only through the off-by-one of the bounds test of import
LevelIdx == 0..MaxLevels

\* metadata.Levels[l].size (kB)
getLevelSize(o, l) == 30 * (l + 1) + 10 * (o - 1)

\* 1 - metadata.Levels[l].hdrvdp2, in tenths: the last level is the reference
\* (hdrvdp2 = 0), each level below it loses one tenth
getLevelQuality(o, l) == 10 - (nb_levels(o) - 1 - l)

\* observed rates a completed import can push (size * 1000 / elapsed ms)
BandwidthSamples == {50, 1000}

DSpeedSamples == {100}

\* values a utility metric can take for one (object, camera): positive, 0
\* (Visible: not on screen) or negative (Visible_Potential: -cos(...) >= -1)
UtilVals == {-1, 0, 1, 2}

ELEMENTS_IN_QUEUES == 10

DefaultSpeed == 100

BUFFER == 2

HORIZON == 2

Strategy == {"Naive_1", "Greedy_1", "Proposed_1", "Greedy_2", "Uniform_2", "Hybrid_2"}

Budgeted == {"Greedy_2", "Uniform_2", "Hybrid_2"}

(***************************************************************************)
(* Exact arithmetic on the JavaScript numbers: a number is a fraction      *)
(* <<n, d>> with d > 0.                                                    *)
(***************************************************************************)
RECURSIVE Gcd(_, _)
Gcd(a, b) == IF b = 0 THEN a ELSE Gcd(b, a % b)

Abs(x) == IF x < 0 THEN -x ELSE x

Norm(r) ==
  LET g == Gcd(Abs(r[1]), r[2]) IN <<r[1] \div g, r[2] \div g>>

RInt(n) == <<n, 1>>

RAdd(a, b) == Norm(<<a[1] * b[2] + b[1] * a[2], a[2] * b[2]>>)

RMul(a, b) == Norm(<<a[1] * b[1], a[2] * b[2]>>)

\* a / b for b > 0
RDiv(a, b) == Norm(<<a[1] * b[2], a[2] * b[1]>>)

RNeg(a) == <<-a[1], a[2]>>

RSub(a, b) == RAdd(a, RNeg(b))

RGt(a, b) == a[1] * b[2] > b[1] * a[2]

REq(a, b) == a[1] * b[2] = b[1] * a[2]

RECURSIVE SumSeq(_)
SumSeq(s) == IF s = <<>> THEN 0 ELSE Head(s) + SumSeq(Tail(s))


(***************************************************************************)
(* State.                                                                  *)
(***************************************************************************)
VARIABLES
  initPhase,        \* per object: position of its element of ObjectManager._init_
  initialized,      \* MuseumObject: levels / asked arrays exist (_init_ ran)
  asked,            \* MuseumObject.asked[level]
  levels,           \* MuseumObject.levels[level] holds a mesh
  enabled,          \* the mesh of levels[level] is enabled (displayed)
  currentLevel,     \* MuseumObject.currentLevel
  fetch,            \* position of the import coroutine of (object, level)
  ioCount,          \* number of loadFileAsArrayBufferAsync calls per (object, level)
  bandwidthQueue,   \* SpeedManager.bandwidthQueue
  dSpeedQueue,      \* SpeedManager.dSpeedQueue
  import_started,   \* ObjectManager.import_started
  chosenStrategy,   \* Strategies._chosenStrategy
  pc,               \* position of the anim_import coroutine
  passStrategy,     \* the strategy method the pass is executing
  passMetric,       \* the metric calcUtility dispatched to during the selection of the pass
  passPath,         \* which download block of the strategy the pass is in
  utilities,        \* the ranked utilities array(s) of the pass, with nextLevel
  planIdx,          \* index in utilities of the import the pass awaits
  importedMeshes,   \* importedMeshes of the pass
  budget,           \* budget computed at the start of the pass
  nb_bits,          \* nb_bits at the end of the selection of the pass
  running,          \* number of executeStrategy calls that have not returned or thrown
  chosenMetric,     \* Metrics._chosenMetric
  screenArea,       \* per object: what visible() and potential() return for the camera
  score,            \* per object: what visible_potential() returned, once called
  corners,          \* the projected corners of a bounding box, in the order of vectorsWorld
  surface,          \* what visible() returned for these corners, once called
  heap,             \* the Vector3 / Quaternion objects of the cameras, by reference
  futureCamera,     \* the camera the last getCameraInTime returned
  deltaTime,        \* scene.deltaTime (ms)
  isWebXR,          \* the active camera is a WebXRCamera
  visibles          \* what the last getVisibleObjects / getNotVisibleObjects call returned

objVars == <<initialized, asked, levels, enabled, currentLevel, fetch, ioCount>>

queueVars == <<bandwidthQueue, dSpeedQueue>>

metricVars == <<screenArea, score>>

hullVars == <<corners, surface>>

cameraVars == <<heap, futureCamera, deltaTime, isWebXR>>

sceneVars == <<chosenMetric, metricVars, hullVars, cameraVars, visibles>>

passVars == <<pc, passStrategy, passMetric, passPath, utilities, planIdx, importedMeshes, budget, nb_bits,
             running>>

vars == <<initPhase, initialized, asked, levels, enabled, currentLevel, fetch, ioCount,
          bandwidthQueue, dSpeedQueue, import_started, chosenStrategy,
          pc, passStrategy, passMetric, passPath, utilities, planIdx, importedMeshes,
          budget, nb_bits, running, chosenMetric, screenArea, score, corners, surface,
          heap, futureCamera, deltaTime, isWebXR, visibles>>

(***************************************************************************)
(* SpeedManager.                                                           *)
(***************************************************************************)
RECURSIVE EvictEarly(_)
\* the while loop testing length >= ELEMENTS_IN_QUEUES
EvictEarly(q) == IF Len(q) >= ELEMENTS_IN_QUEUES THEN EvictEarly(Tail(q)) ELSE q

RECURSIVE Evict(_)
Evict(q) == IF Len(q) > ELEMENTS_IN_QUEUES THEN Evict(Tail(q)) ELSE q

pushBandwidth(q, pBandwidth) == Evict(Append(q, pBandwidth))

pushDSpeed(q, pDSpeed) == Evict(Append(q, pDSpeed))

getBandwidth(q) == IF Len(q) = 0 THEN RInt(DefaultSpeed) ELSE Norm(<<SumSeq(q), Len(q)>>)

getDSpeed(q) == IF Len(q) = 0 THEN RInt(DefaultSpeed) ELSE Norm(<<SumSeq(q), Len(q)>>)

\* the budget without the factor BUFFER: bw * ds / (bw + ds)
BudgetWithoutBuffer(bw, ds) == RDiv(RMul(bw, ds), RAdd(bw, ds))

\* budget = (bw * ds / (bw + ds)) * BUFFER
Budget(bw, ds) == RMul(RDiv(RMul(bw, ds), RAdd(bw, ds)), RInt(BUFFER))

\* t_next = size * (1 / bw + 1 / ds)
FetchTime(size, bw, ds) == RMul(RInt(size), RAdd(RDiv(RInt(1), bw), RDiv(RInt(1), ds)))

(***************************************************************************)
(* MuseumObject.import: the synchronous part, up to the first await.       *)
(***************************************************************************)
\* import testing only the meshes: if (this.levels[level])
ImportOutcomeLoadedOnly(ini, lv, a, o, level) ==
  IF ~ini[o] THEN "notinit"
  ELSE IF level < 0 \/ level > nb_levels(o) THEN "bounds"
  ELSE IF lv[o][level] THEN "duplicate"
  ELSE IF level = nb_levels(o) THEN "typeerror"
  ELSE "start"

\* what a call import(level) on object o does before it first suspends,
\* the object being in state (ini, lv, a)
ImportOutcome(ini, lv, a, o, level) ==
  IF ~ini[o] THEN "notinit"
  ELSE IF level < 0 \/ level > nb_levels(o) THEN "bounds"
  ELSE IF lv[o][level] \/ a[o][level] THEN "duplicate"
  ELSE IF level = nb_levels(o) THEN "typeerror"
  ELSE "start"

\* import that never sets this.asked[level]
AskedAfterUnset(ini, lv, a, o, level) == a

\* asked after the call: the flag is set before the file name is read
AskedAfter(ini, lv, a, o, level) ==
  IF ImportOutcome(ini, lv, a, o, level) \in {"typeerror", "start"}
  THEN [a EXCEPT ![o][level] = TRUE]
  ELSE a

\* the display rule without its test: this.currentLevel = level
CurrentLevelAfterLast(o, level) == [currentLevel EXCEPT ![o] = level]

\* the display rule applied when the mesh of (o, level) has been built
CurrentLevelAfter(o, level) ==
  IF level > currentLevel[o] THEN [currentLevel EXCEPT ![o] = level] ELSE currentLevel

\* the display rule without its else branch: a new mesh is enabled
EnabledAfterNoHide(o, level) ==
  IF level > currentLevel[o]
  THEN IF currentLevel[o] # -1
       THEN [enabled EXCEPT ![o][currentLevel[o]] = FALSE, ![o][level] = TRUE]
       ELSE [enabled EXCEPT ![o][level] = TRUE]
  ELSE [enabled EXCEPT ![o][level] = TRUE]

\* enabled state of the meshes after the display rule (a new Mesh is enabled)
EnabledAfter(o, level) ==
  IF level > currentLevel[o]
  THEN IF currentLevel[o] # -1
       THEN [enabled EXCEPT ![o][currentLevel[o]] = FALSE, ![o][level] = TRUE]
       ELSE [enabled EXCEPT ![o][level] = TRUE]
  ELSE [enabled EXCEPT ![o][level] = FALSE]

(***************************************************************************)
(* ObjectManager queries.                                                  *)
(***************************************************************************)
\* the test on the first level instead of the last: obj.getLevel(0)
checkFirstLoaded == \A o \in Objects : levels[o][0]

\* for each object: if (!obj.getLevel(obj.getNumberOfLevels() - 1)) return false
checkAllLoaded == \A o \in Objects : levels[o][nb_levels(o) - 1]

\* a camera, as far as the frustum test goes: the set of objects whose
\* current mesh is in its frustum
Cameras == SUBSET Objects

\* currentMesh.isInFrustum(frustumPlanes)
isInFrustum(o, cam) == o \in cam

\* this.objects.filter(obj => obj.getCurrentMesh().isInFrustum(frustumPlanes))
getVisibleObjects(cam) == {o \in Objects : isInFrustum(o, cam)}

\* the filter without its negation
getNotVisibleObjectsSameTest(cam) == {o \in Objects : isInFrustum(o, cam)}

\* this.objects.filter(obj => !obj.getLevel(obj.currentLevel).isInFrustum(frustumPlanes))
getNotVisibleObjects(cam) == {o \in Objects : ~isInFrustum(o, cam)}

RECURSIVE SeqOf(_, _)
\* this.objects.filter(...): the objects of S in catalog order, from object o on
SeqOf(S, o) ==
  IF o \notin Objects THEN <<>>
  ELSE (IF o \in S THEN <<o>> ELSE <<>>) \o SeqOf(S, o + 1)

(***************************************************************************)
(* Strategies: ranking and selection.                                      *)
(***************************************************************************)
RECURSIVE InsertBeforeEquals(_, _, _)
\* o placed before the elements of equal utility: a sort that is not stable
InsertBeforeEquals(s, o, u) ==
  IF s = <<>> THEN <<o>>
  ELSE IF u[Head(s)] > u[o] THEN <<Head(s)>> \o InsertBeforeEquals(Tail(s), o, u)
  ELSE <<o>> \o s

RECURSIVE Insert(_, _, _)
\* o placed after every element whose utility is not smaller
Insert(s, o, u) ==
  IF s = <<>> THEN <<o>>
  ELSE IF u[Head(s)] >= u[o] THEN <<Head(s)>> \o Insert(Tail(s), o, u)
  ELSE <<o>> \o s

RECURSIVE SortFrom(_, _, _)
SortFrom(s, acc, u) ==
  IF s = <<>> THEN acc ELSE SortFrom(Tail(s), Insert(acc, Head(s), u), u)

\* utilities.sort((a, b) => - a.utility + b.utility): descending, stable
SortDesc(s, u) == SortFrom(s, <<>>, u)

\* the utilities array right after the push loop and the sort
Ranked(S, u) ==
  LET r == SortDesc(SeqOf(S, 1), u)
  IN [i \in 1..Len(r) |-> [object |-> r[i], nextLevel |-> currentLevel[r[i]]]]

\* cost of going from level from to level to: a loaded mesh costs 0
Cost(o, from, to) ==
  (IF levels[o][to] THEN 0 ELSE getLevelSize(o, to))
  - (IF levels[o][from] THEN 0 ELSE getLevelSize(o, from))

RECURSIVE BumpCostAlone(_, _, _, _)
\* the while loop testing the cost of the step alone: if (cost > budget)
BumpCostAlone(o, nextLevel, bits, bud) ==
  IF nextLevel + 1 < nb_levels(o)
  THEN LET cost == Cost(o, nextLevel, nextLevel + 1)
       IN IF RGt(RInt(cost), bud)
          THEN [nextLevel |-> nextLevel, nb_bits |-> bits]
          ELSE BumpCostAlone(o, nextLevel + 1, bits + cost, bud)
  ELSE [nextLevel |-> nextLevel, nb_bits |-> bits]

RECURSIVE Bump(_, _, _, _)
\* the while loop of greedy2 on one object
Bump(o, nextLevel, bits, bud) ==
  IF nextLevel + 1 < nb_levels(o)
  THEN LET cost == Cost(o, nextLevel, nextLevel + 1)
       IN IF RGt(RInt(bits + cost), bud)
          THEN [nextLevel |-> nextLevel, nb_bits |-> bits]
          ELSE Bump(o, nextLevel + 1, bits + cost, bud)
  ELSE [nextLevel |-> nextLevel, nb_bits |-> bits]

RECURSIVE GreedyWalk(_, _, _, _)
\* the for loop of greedy2 over the ranked array, from index i
GreedyWalk(us, i, bits, bud) ==
  IF i > Len(us) THEN [utilities |-> us, nb_bits |-> bits]
  ELSE LET b == Bump(us[i].object, us[i].nextLevel, bits, bud)
       IN GreedyWalk([us EXCEPT ![i].nextLevel = b.nextLevel], i + 1, b.nb_bits, bud)

\* a sweep that lets every object climb as far as the budget allows
UniformSweepRacing(us, i, lvl, bits, change, bud) ==
  LET g == GreedyWalk(us, i, bits, bud)
  IN [utilities |-> g.utilities, nb_bits |-> g.nb_bits,
      change |-> change \/ g.utilities # us]

RECURSIVE UniformSweepPastTop(_, _, _, _, _, _)
\* a sweep whose bounds test lets the level just past an object's last one
\* set change
UniformSweepPastTop(us, i, lvl, bits, change, bud) ==
  IF i > Len(us) THEN [utilities |-> us, nb_bits |-> bits, change |-> change]
  ELSE LET o == us[i].object
           nextLevel == us[i].nextLevel
       IN IF lvl < nb_levels(o)
          THEN LET cost == Cost(o, nextLevel, lvl)
               IN IF RGt(RInt(bits + cost), bud)
                  THEN UniformSweepPastTop(us, i + 1, lvl, bits, change, bud)
                  ELSE IF lvl > nextLevel
                       THEN UniformSweepPastTop([us EXCEPT ![i].nextLevel = lvl], i + 1, lvl,
                                                bits + cost, TRUE, bud)
                       ELSE UniformSweepPastTop(us, i + 1, lvl, bits, TRUE, bud)
          ELSE UniformSweepPastTop(us, i + 1, lvl, bits, change \/ lvl = nb_levels(o), bud)

RECURSIVE UniformSweep(_, _, _, _, _, _)
\* one for loop of uniform2 over the ranked array for the shared level lvl
UniformSweep(us, i, lvl, bits, change, bud) ==
  IF i > Len(us) THEN [utilities |-> us, nb_bits |-> bits, change |-> change]
  ELSE LET o == us[i].object
           nextLevel == us[i].nextLevel
       IN IF lvl < nb_levels(o)
          THEN LET cost == Cost(o, nextLevel, lvl)
               IN IF RGt(RInt(bits + cost), bud)
                  THEN UniformSweep(us, i + 1, lvl, bits, change, bud)
                  ELSE IF lvl > nextLevel
                       THEN UniformSweep([us EXCEPT ![i].nextLevel = lvl], i + 1, lvl,
                                         bits + cost, TRUE, bud)
                       ELSE UniformSweep(us, i + 1, lvl, bits, TRUE, bud)
          ELSE UniformSweep(us, i + 1, lvl, bits, change, bud)

RECURSIVE UniformLoop(_, _, _, _)
\* while (change) of uniform2, the shared level starting at lvl
UniformLoop(us, lvl, bits, bud) ==
  LET s == UniformSweep(us, 1, lvl, bits, FALSE, bud)
  IN IF s.change
     THEN UniformLoop(s.utilities, lvl + 1, s.nb_bits, bud)
     ELSE [utilities |-> s.utilities, nb_bits |-> s.nb_bits]

RECURSIVE UniformSweeps(_, _, _, _, _)
\* the first k iterations of while (change), the shared level starting at lvl
UniformSweeps(us, lvl, k, bits, bud) ==
  IF k = 0 THEN us
  ELSE LET s == UniformSweep(us, 1, lvl, bits, FALSE, bud)
       IN IF s.change
          THEN UniformSweeps(s.utilities, lvl + 1, k - 1, s.nb_bits, bud)
          ELSE s.utilities

\* newLevel: some entry was given a level above the current one
NewLevel(us) == \E i \in 1..Len(us) : us[i].nextLevel # currentLevel[us[i].object]

\* a fallback that finds no object to upgrade
NoFallbackIdx(us, ut) == 0

RECURSIVE FallbackIdx(_, _)
\* while (ut < utilities.length): the first entry with room to grow (0: none)
FallbackIdx(us, ut) ==
  IF ut > Len(us) THEN 0
  ELSE IF us[ut].nextLevel + 1 >= nb_levels(us[ut].object) THEN FallbackIdx(us, ut + 1)
  ELSE ut

(***************************************************************************)
(* Strategies of the first paper: one best candidate.                      *)
(***************************************************************************)
\* the candidates taken from the whole catalog
VisiblesOrNot(visNow, visLater) == SeqOf(Objects, 1)

\* [...visiblesNow, ...visiblesLater.filter(o => !~visiblesNow.indexOf(o))]
Visibles(visNow, visLater) == SeqOf(visNow, 1) \o SeqOf(visLater \ visNow, 1)

RECURSIVE LevelsFrom(_, _)
\* for (j = currentLevel; j < nb_levels; j++) if (!getLevel(j))
LevelsFrom(o, j) ==
  IF j >= nb_levels(o) THEN <<>>
  ELSE (IF ~levels[o][j] THEN <<[object |-> o, nextLevel |-> j]>> ELSE <<>>)
       \o LevelsFrom(o, j + 1)

RECURSIVE CandidatesFromZero(_)
\* the inner loop starting at level 0: for (j = 0; j < nb_levels; j++)
CandidatesFromZero(vis) ==
  IF vis = <<>> THEN <<>>
  ELSE LevelsFrom(Head(vis), 0) \o CandidatesFromZero(Tail(vis))

RECURSIVE Candidates(_)
\* the (object, level) pairs in the order the two nested loops visit them
Candidates(vis) ==
  IF vis = <<>> THEN <<>>
  ELSE LevelsFrom(Head(vis), currentLevel[Head(vis)]) \o Candidates(Tail(vis))

Quality(o, l) == <<getLevelQuality(o, l), 10>>

\* naive1: quality of the level * utility seen from the camera now
NaiveScore(c, utilNow) == RMul(Quality(c.object, c.nextLevel), RInt(utilNow[c.object]))

\* greedy1: utility seen from the camera predicted at t_next * quality / t_next
GreedyScore(c, utilLater, bw, ds) ==
  RDiv(RMul(RInt(utilLater[c.object]), Quality(c.object, c.nextLevel)),
       FetchTime(getLevelSize(c.object, c.nextLevel), bw, ds))

\* increment = (HORIZON - t_next) / 4
Increment(c, bw, ds) ==
  RDiv(RAdd(RInt(HORIZON),
            RMul(RInt(-1), FetchTime(getLevelSize(c.object, c.nextLevel), bw, ds))),
       RInt(4))

\* proposed1: the Riemann sum over the 4 predicted cameras, * quality
RiemannScore(c, utilLater, bw, ds) ==
  LET inc == Increment(c, bw, ds)
      term == RMul(inc, RInt(utilLater[c.object]))
  IN RMul(RAdd(RAdd(term, term), RAdd(term, term)), Quality(c.object, c.nextLevel))

RECURSIVE BestIdx(_, _, _, _)
\* if (utility > bestUtility): index of the best candidate, 0 when newLevel stays false
BestIdx(scores, i, bestI, bestUtility) ==
  IF i > Len(scores) THEN bestI
  ELSE IF RGt(scores[i], bestUtility) THEN BestIdx(scores, i + 1, i, scores[i])
  ELSE BestIdx(scores, i + 1, bestI, bestUtility)

RECURSIVE ProposedFold(_, _, _, _, _, _)
\* the loops of proposed1: st = [b, bU, b2, bU2], indices of the two bests
ProposedFold(cs, i, st, utilLater, bw, ds) ==
  IF i > Len(cs) THEN st
  ELSE IF RGt(Increment(cs[i], bw, ds), RInt(0))
       THEN LET utility == RiemannScore(cs[i], utilLater, bw, ds)
            IN IF RGt(utility, st.bU)
               THEN ProposedFold(cs, i + 1, [st EXCEPT !.b = i, !.bU = utility],
                                 utilLater, bw, ds)
               ELSE ProposedFold(cs, i + 1, st, utilLater, bw, ds)
       ELSE IF REq(st.bU, RInt(-1))
            THEN LET utility == GreedyScore(cs[i], utilLater, bw, ds)
                 IN IF RGt(utility, st.bU2)
                    THEN ProposedFold(cs, i + 1, [st EXCEPT !.b2 = i, !.bU2 = utility],
                                      utilLater, bw, ds)
                    ELSE ProposedFold(cs, i + 1, st, utilLater, bw, ds)
            ELSE ProposedFold(cs, i + 1, st, utilLater, bw, ds)

\* index of the candidate proposed1 imports (0: newLevel is false)
ProposedIdx(cs, utilLater, bw, ds) ==
  LET st == ProposedFold(cs, 1, [b |-> 0, bU |-> RInt(-1), b2 |-> 0, bU2 |-> RInt(-1)],
                         utilLater, bw, ds)
  IN IF ~REq(st.bU, RInt(-1)) THEN st.b ELSE st.b2

(***************************************************************************)
(* Initial state: the ObjectManager and the MuseumObjects constructed,     *)
(* nothing fetched, Naive_1 chosen.                                        *)
(***************************************************************************)
NoLevels == [o \in Objects |-> [l \in LevelIdx |-> FALSE]]

\* the state after the constructors of ObjectManager, SpeedManager, Strategies and Metrics
Constructed ==
  /\ initPhase = [o \in Objects |-> "new"]
  /\ initialized = [o \in Objects |-> FALSE]
  /\ asked = NoLevels
  /\ levels = NoLevels
  /\ enabled = NoLevels
  /\ currentLevel = [o \in Objects |-> -1]
  /\ fetch = [o \in Objects |-> [l \in LevelIdx |-> "none"]]
  /\ ioCount = [o \in Objects |-> [l \in LevelIdx |-> 0]]
  /\ bandwidthQueue = <<>>
  /\ dSpeedQueue = <<>>
  /\ import_started = FALSE
  /\ chosenStrategy = "Naive_1"
  /\ pc = "idle"
  /\ passStrategy = "none"
  /\ passMetric = "none"
  /\ passPath = "none"
  /\ utilities = <<>>
  /\ planIdx = 0
  /\ importedMeshes = <<>>
  /\ budget = RInt(0)
  /\ nb_bits = 0
  /\ running = 0
  /\ chosenMetric = "Distance"
  /\ visibles = [by |-> "none", cam |-> "none", objects |-> <<>>]

\* the result of a metric that has not been called
NoScore == <<>>

\* no metric has been evaluated
MetricIdle ==
  /\ screenArea = [o \in Objects |-> [visible |-> RInt(0), potential |-> RInt(0)]]
  /\ score = [o \in Objects |-> NoScore]

\* no bounding box has been projected
HullIdle ==
  /\ corners = <<>>
  /\ surface = NoScore

\* the references of a camera's position, rotation and rotationQuaternion
currentCamera ==
  [position |-> "camera.position", rotation |-> "camera.rotation",
   rotationQuaternion |-> "camera.rotationQuaternion"]

NoCamera == [position |-> "none", rotation |-> "none", rotationQuaternion |-> "none"]

\* CameraManager.prevPosition, prevRotation, prevRotQuaternion
prevPosition == "prevPosition"

prevRotation == "prevRotation"

prevRotQuaternion == "prevRotQuaternion"

Addr ==
  {"camera.position", "camera.rotation", "camera.rotationQuaternion",
   "prevPosition", "prevRotation", "prevRotQuaternion",
   "futureCamera.position", "futureCamera.rotation", "futureCamera.rotationQuaternion"}

\* a vector, by two of its components
V(a, b) == <<RInt(a), RInt(b)>>

\* Vector3.Zero(), and Quaternion.Identity() as a rotation about the vertical
\* axis by 0 degrees
HeapAfterConstructor ==
  [a \in Addr |-> IF a \in {"camera.rotationQuaternion", "prevRotQuaternion",
                             "futureCamera.rotationQuaternion"}
                  THEN RInt(0) ELSE V(0, 0)]

\* the camera at the origin, no frame rendered, no prediction made
CameraIdle ==
  /\ heap = HeapAfterConstructor
  /\ futureCamera = NoCamera
  /\ deltaTime = 16
  /\ isWebXR = FALSE

Init == Constructed /\ MetricIdle /\ HullIdle /\ CameraIdle

(***************************************************************************)
(* The download block of a strategy.                                       *)
(***************************************************************************)
\* the (object, level) whose import the pass awaits
PassTarget ==
  <<utilities[planIdx].object,
    utilities[planIdx].nextLevel + (IF passPath = "fallback" THEN 1 ELSE 0)>>

IsPassFetch(o, l) == pc = "fetch" /\ PassTarget = <<o, l>>

\* the try / catch of the normal block placed around its for loop
OnThrowLeavesLoop(path) ==
  CASE path = "normal" -> "delay"
    [] path = "single" -> "delay"
    [] OTHER -> "aborted"

\* where an exception of import goes, by download block: the for loop of the
\* normal block catches and logs it inside the loop, which goes on; the
\* strategies with one candidate catch it and return; the fallback block has
\* no try, so it leaves the strategy, executeStrategy and anim_import
OnThrow(path) ==
  CASE path = "normal" -> "continue"
    [] path = "single" -> "delay"
    [] OTHER -> "aborted"

RECURSIVE NextStart(_, _, _, _, _)
\* the for loop of the normal block from index i, the objects being in state
\* (lv, a, cl): the index of the first import that suspends on its download
\* (0: the loop is left, to pc = end) and asked
NextStart(us, i, lv, a, cl) ==
  IF i > Len(us) THEN [idx |-> 0, asked |-> a, end |-> "delay"]
  ELSE LET o == us[i].object
           l == us[i].nextLevel
       IN IF l = cl[o] THEN NextStart(us, i + 1, lv, a, cl)
          ELSE IF ImportOutcome(initialized, lv, a, o, l) = "start"
               THEN [idx |-> i, asked |-> AskedAfter(initialized, lv, a, o, l), end |-> "fetch"]
               ELSE IF OnThrow("normal") = "continue"
                    THEN NextStart(us, i + 1, lv, AskedAfter(initialized, lv, a, o, l), cl)
                    ELSE [idx |-> 0, asked |-> AskedAfter(initialized, lv, a, o, l),
                          end |-> OnThrow("normal")]

\* a download loop that climbs one level at a time: import(currentLevel + 1)
DownloadLoopStepwise(us, i, lv, a, cl, f, n) ==
  LET r == NextStart(us, i, lv, a, cl)
  IN /\ asked' = r.asked
     /\ IF r.idx = 0
        THEN /\ pc' = r.end
             /\ running' = n - 1
             /\ planIdx' = 0
             /\ fetch' = f
             /\ ioCount' = ioCount
        ELSE /\ pc' = "fetch"
             /\ running' = n
             /\ planIdx' = r.idx
             /\ fetch' = [f EXCEPT ![us[r.idx].object][cl[us[r.idx].object] + 1] = "download"]
             /\ ioCount' = [ioCount EXCEPT ![us[r.idx].object][cl[us[r.idx].object] + 1] = @ + 1]

\* the pass runs the for loop of the download block from index i and returns
\* at its end; n counts the executeStrategy calls running, this one included
DownloadLoop(us, i, lv, a, cl, f, n) ==
  LET r == NextStart(us, i, lv, a, cl)
  IN /\ asked' = r.asked
     /\ IF r.idx = 0
        THEN /\ pc' = r.end
             /\ running' = n - 1
             /\ planIdx' = 0
             /\ fetch' = f
             /\ ioCount' = ioCount
        ELSE /\ pc' = "fetch"
             /\ running' = n
             /\ planIdx' = r.idx
             /\ fetch' = [f EXCEPT ![us[r.idx].object][us[r.idx].nextLevel] = "download"]
             /\ ioCount' = [ioCount EXCEPT ![us[r.idx].object][us[r.idx].nextLevel] = @ + 1]

\* the pass calls import(us[idx].nextLevel + plus) as its only import
OneImport(us, idx, plus, path) ==
  LET o == us[idx].object
      l == us[idx].nextLevel + plus
  IN /\ asked' = AskedAfter(initialized, levels, asked, o, l)
     /\ IF ImportOutcome(initialized, levels, asked, o, l) = "start"
        THEN /\ pc' = "fetch"
             /\ running' = running + 1
             /\ planIdx' = idx
             /\ fetch' = [fetch EXCEPT ![o][l] = "download"]
             /\ ioCount' = [ioCount EXCEPT ![o][l] = @ + 1]
        ELSE /\ pc' = OnThrow(path)
             /\ running' = running
             /\ planIdx' = 0
             /\ fetch' = fetch
             /\ ioCount' = ioCount

\* a strategy that raises when it has nothing to import
ReturnRaising ==
  /\ pc' = "aborted"
  /\ running' = running
  /\ planIdx' = 0
  /\ UNCHANGED <<asked, fetch, ioCount>>

\* the strategy returns without having called import
ReturnEmpty ==
  /\ pc' = "delay"
  /\ running' = running
  /\ planIdx' = 0
  /\ UNCHANGED <<asked, fetch, ioCount>>

\* if (!newLevel) { fallback } else { for loop with try / catch }
DownloadBlock(us) ==
  IF ~NewLevel(us)
  THEN /\ passPath' = "fallback"
       /\ IF FallbackIdx(us, 1) = 0
          THEN ReturnEmpty
          ELSE OneImport(us, FallbackIdx(us, 1), 1, "fallback")
  ELSE /\ passPath' = "normal"
       /\ DownloadLoop(us, 1, levels, asked, currentLevel, fetch, running + 1)

\* if (newLevel) { try { import(best) } catch { log } }
SingleBlock(cs, idx) ==
  /\ passPath' = "single"
  /\ IF idx = 0
     THEN /\ utilities' = <<>>
          /\ ReturnEmpty
     ELSE /\ utilities' = <<cs[idx]>>
          /\ OneImport(<<cs[idx]>>, 1, 0, "single")

(***************************************************************************)
(* ObjectManager._init_: one element of the Promise.all per object.        *)
(***************************************************************************)
\* the metadata arrived: MuseumObject._init_ creates the arrays, then import(0)
InitObject(o) ==
  /\ initPhase[o] = "new"
  /\ initPhase' = [initPhase EXCEPT ![o] = "importing"]
  /\ initialized' = [initialized EXCEPT ![o] = TRUE]
  /\ asked' = AskedAfter(initialized', levels, asked, o, 0)
  /\ fetch' = [fetch EXCEPT ![o][0] = "download"]
  /\ ioCount' = [ioCount EXCEPT ![o][0] = @ + 1]
  /\ UNCHANGED <<levels, enabled, currentLevel, queueVars, import_started, chosenStrategy, sceneVars,
                 passVars>>

\* the metadata could not be loaded or parsed: _init_ of the manager rejects
InitObjectFail(o) ==
  /\ initPhase[o] = "new"
  /\ initPhase' = [initPhase EXCEPT ![o] = "failed"]
  /\ UNCHANGED <<objVars, queueVars, import_started, chosenStrategy, sceneVars, passVars>>

\* the render loop registered without awaiting the imports of level 0
LoopRunningBeforeImports == \A o \in Objects : initPhase[o] \in {"importing", "ok"}

\* the render loop is registered once initializeScene has resolved
LoopRunning == \A o \in Objects : initPhase[o] = "ok"

(***************************************************************************)
(* Completion of the download and of the decode of an import.              *)
(***************************************************************************)
\* import(l) of o returned its mesh: the awaiting caller goes on
Resolved(o, l, lv, cl, f) ==
  IF IsPassFetch(o, l)
  THEN /\ importedMeshes' = Append(importedMeshes, <<o, l>>)
       /\ IF passPath = "normal"
          THEN DownloadLoop(utilities, planIdx + 1, lv, asked, cl, f, running)
          ELSE /\ pc' = "delay"
               /\ running' = running - 1
               /\ planIdx' = 0
               /\ fetch' = f
               /\ UNCHANGED <<asked, ioCount>>
       /\ UNCHANGED <<initPhase, passStrategy, passMetric, passPath, utilities, budget, nb_bits>>
  ELSE /\ initPhase' = IF initPhase[o] = "importing" /\ l = 0
                       THEN [initPhase EXCEPT ![o] = "ok"]
                       ELSE initPhase
       /\ fetch' = f
       /\ UNCHANGED <<asked, ioCount, passVars>>

\* import(l) of o threw after its download started
Rejected(o, l, f) ==
  IF IsPassFetch(o, l)
  THEN /\ IF OnThrow(passPath) = "continue"
          THEN DownloadLoop(utilities, planIdx + 1, levels, asked, currentLevel, f, running)
          ELSE /\ pc' = OnThrow(passPath)
               /\ running' = running - 1
               /\ planIdx' = 0
               /\ fetch' = f
               /\ UNCHANGED <<asked, ioCount>>
       /\ UNCHANGED <<initPhase, passStrategy, passMetric, passPath, utilities, importedMeshes, budget,
                      nb_bits>>
  ELSE /\ initPhase' = IF initPhase[o] = "importing" /\ l = 0
                       THEN [initPhase EXCEPT ![o] = "failed"]
                       ELSE initPhase
       /\ fetch' = f
       /\ UNCHANGED <<asked, ioCount, passVars>>

\* an import that pushes its two rates as soon as the file has arrived
DownloadDonePushing(o, l) ==
  /\ fetch[o][l] = "download"
  /\ fetch' = [fetch EXCEPT ![o][l] = "decode"]
  /\ \E bandwidth \in BandwidthSamples, dSpeed \in DSpeedSamples :
       /\ bandwidthQueue' = pushBandwidth(bandwidthQueue, bandwidth)
       /\ dSpeedQueue' = pushDSpeed(dSpeedQueue, dSpeed)
  /\ UNCHANGED <<initPhase, initialized, asked, levels, enabled, currentLevel, ioCount,
                 import_started, chosenStrategy, sceneVars, passVars>>

\* the file arrived: import goes on to decodeMeshAsync
DownloadDone(o, l) ==
  /\ fetch[o][l] = "download"
  /\ fetch' = [fetch EXCEPT ![o][l] = "decode"]
  /\ UNCHANGED <<initPhase, initialized, asked, levels, enabled, currentLevel, ioCount,
                 queueVars, import_started, chosenStrategy, sceneVars, passVars>>

\* loadFileAsArrayBufferAsync rejected: logged and thrown again
DownloadFail(o, l) ==
  /\ fetch[o][l] = "download"
  /\ Rejected(o, l, [fetch EXCEPT ![o][l] = "none"])
  /\ UNCHANGED <<initialized, levels, enabled, currentLevel, queueVars, import_started,
                 chosenStrategy, sceneVars>>

\* decodeMeshAsync rejected: logged and thrown again
DecodeFail(o, l) ==
  /\ fetch[o][l] = "decode"
  /\ Rejected(o, l, [fetch EXCEPT ![o][l] = "none"])
  /\ UNCHANGED <<initialized, levels, enabled, currentLevel, queueVars, import_started,
                 chosenStrategy, sceneVars>>

\* the mesh is built, displayed or hidden, and the two rates are pushed
DecodeDone(o, l) ==
  /\ fetch[o][l] = "decode"
  /\ \E bandwidth \in BandwidthSamples, dSpeed \in DSpeedSamples :
       /\ bandwidthQueue' = pushBandwidth(bandwidthQueue, bandwidth)
       /\ dSpeedQueue' = pushDSpeed(dSpeedQueue, dSpeed)
  /\ levels' = [levels EXCEPT ![o][l] = TRUE]
  /\ enabled' = EnabledAfter(o, l)
  /\ currentLevel' = CurrentLevelAfter(o, l)
  /\ Resolved(o, l, [levels EXCEPT ![o][l] = TRUE], CurrentLevelAfter(o, l),
              [fetch EXCEPT ![o][l] = "none"])
  /\ UNCHANGED <<initialized, import_started, chosenStrategy, sceneVars>>

(***************************************************************************)
(* ObjectManager.anim_import, called by every frame of the render loop.    *)
(* The camera of the frame is an input: the sets of objects in the frustum *)
(* now (visNow) and at the horizon (visLater), the utility of each object  *)
(* from the camera now (utilNow) and from a predicted camera (utilLater).  *)
(***************************************************************************)
\* the guard without its terminal test: if (!this.import_started)
GuardWithoutTerminal == ~import_started

\* the guard without its flag: if (!this.checkAllLoaded())
GuardWithoutFlag == ~checkAllLoaded

\* if (!this.import_started && !this.checkAllLoaded())
Guard == ~import_started /\ ~checkAllLoaded

\* the guard passed: import_started is set and executeStrategy dispatches
PassBegins(s) ==
  /\ LoopRunning
  /\ Guard
  /\ chosenStrategy = s
  /\ import_started' = TRUE
  /\ passStrategy' = s
  /\ passMetric' = chosenMetric
  /\ importedMeshes' = <<>>
  /\ UNCHANGED <<initPhase, initialized, levels, enabled, currentLevel, queueVars,
                 chosenStrategy>>

\* a pass started by a frame whose camera is an input: the cameras, the
\* metric and the results of the queries are left alone
PassStart(s) == PassBegins(s) /\ UNCHANGED sceneVars

\* the candidates of naive1 / greedy1 / proposed1 for the cameras now and at
\* the horizon
CandidatesOf(camNow, camLater) ==
  Candidates(Visibles(getVisibleObjects(camNow), getVisibleObjects(camLater)))

NaiveIdx(camNow, camLater, utilNow) ==
  LET cs == CandidatesOf(camNow, camLater)
  IN BestIdx([i \in 1..Len(cs) |-> NaiveScore(cs[i], utilNow)], 1, 0, RInt(-1))

GreedyIdx(camNow, camLater, utilLater) ==
  LET cs == CandidatesOf(camNow, camLater)
  IN BestIdx([i \in 1..Len(cs) |->
                GreedyScore(cs[i], utilLater, getBandwidth(bandwidthQueue),
                            getDSpeed(dSpeedQueue))], 1, 0, RInt(-1))

naive1Pass(camNow, camLater, utilNow) ==
  /\ PassStart("Naive_1")
  /\ budget' = RInt(0)
  /\ nb_bits' = 0
  /\ SingleBlock(CandidatesOf(camNow, camLater), NaiveIdx(camNow, camLater, utilNow))

naive1 ==
  \E camNow \in Cameras, camLater \in Cameras, utilNow \in [Objects -> UtilVals] :
    naive1Pass(camNow, camLater, utilNow)

greedy1Pass(camNow, camLater, utilLater) ==
  /\ PassStart("Greedy_1")
  /\ budget' = RInt(0)
  /\ nb_bits' = 0
  /\ SingleBlock(CandidatesOf(camNow, camLater), GreedyIdx(camNow, camLater, utilLater))

greedy1 ==
  \E camNow \in Cameras, camLater \in Cameras, utilLater \in [Objects -> UtilVals] :
    greedy1Pass(camNow, camLater, utilLater)

proposed1Pass(camNow, camLater, utilLater) ==
  /\ PassStart("Proposed_1")
  /\ budget' = RInt(0)
  /\ nb_bits' = 0
  /\ SingleBlock(CandidatesOf(camNow, camLater),
                 ProposedIdx(CandidatesOf(camNow, camLater), utilLater,
                             getBandwidth(bandwidthQueue), getDSpeed(dSpeedQueue)))

proposed1 ==
  \E camNow \in Cameras, camLater \in Cameras, utilLater \in [Objects -> UtilVals] :
    proposed1Pass(camNow, camLater, utilLater)

\* the budget of the pass
PassBudget == Budget(getBandwidth(bandwidthQueue), getDSpeed(dSpeedQueue))

greedy2Select(utilNow) == GreedyWalk(Ranked(Objects, utilNow), 1, 0, PassBudget)

greedy2Pass(utilNow) ==
  /\ PassStart("Greedy_2")
  /\ budget' = PassBudget
  /\ nb_bits' = greedy2Select(utilNow).nb_bits
  /\ utilities' = greedy2Select(utilNow).utilities
  /\ DownloadBlock(greedy2Select(utilNow).utilities)

greedy2 == \E utilNow \in [Objects -> UtilVals] : greedy2Pass(utilNow)

uniform2Select(utilNow) == UniformLoop(Ranked(Objects, utilNow), 1, 0, PassBudget)

uniform2Pass(utilNow) ==
  /\ PassStart("Uniform_2")
  /\ budget' = PassBudget
  /\ nb_bits' = uniform2Select(utilNow).nb_bits
  /\ utilities' = uniform2Select(utilNow).utilities
  /\ DownloadBlock(uniform2Select(utilNow).utilities)

uniform2 == \E utilNow \in [Objects -> UtilVals] : uniform2Pass(utilNow)

\* hybrid2 if it served the objects out of the frustum before those in it
hybrid2SelectInvisibleFirst(cam, utilNow) ==
  LET nsel == GreedyWalk(Ranked(getNotVisibleObjects(cam), utilNow), 1, 0, PassBudget)
      vsel == UniformLoop(Ranked(getVisibleObjects(cam), utilNow), 1, nsel.nb_bits,
                          PassBudget)
  IN [utilities |-> vsel.utilities \o nsel.utilities, nb_bits |-> vsel.nb_bits]

\* visibleUtilities then notVisibleUtilities, and the nb_bits of both selections
hybrid2Select(cam, utilNow) ==
  LET vsel == UniformLoop(Ranked(getVisibleObjects(cam), utilNow), 1, 0, PassBudget)
      nsel == GreedyWalk(Ranked(getNotVisibleObjects(cam), utilNow), 1, vsel.nb_bits,
                         PassBudget)
  IN [utilities |-> vsel.utilities \o nsel.utilities, nb_bits |-> nsel.nb_bits]

hybrid2Pass(cam, utilNow) ==
  /\ PassStart("Hybrid_2")
  /\ budget' = PassBudget
  /\ nb_bits' = hybrid2Select(cam, utilNow).nb_bits
  /\ utilities' = hybrid2Select(cam, utilNow).utilities
  /\ DownloadBlock(hybrid2Select(cam, utilNow).utilities)

hybrid2 ==
  \E cam \in Cameras, utilNow \in [Objects -> UtilVals] : hybrid2Pass(cam, utilNow)

\* a call that does not pass the guard does nothing
AnimImportSkip ==
  /\ LoopRunning
  /\ ~Guard
  /\ UNCHANGED vars

\* await this.delay(1) elapsed: the guard is released
DelayDone ==
  /\ pc = "delay"
  /\ import_started' = FALSE
  /\ pc' = "idle"
  /\ passStrategy' = "none"
  /\ passMetric' = "none"
  /\ passPath' = "none"
  /\ utilities' = <<>>
  /\ planIdx' = 0
  /\ importedMeshes' = <<>>
  /\ budget' = RInt(0)
  /\ nb_bits' = 0
  /\ UNCHANGED <<initPhase, objVars, queueVars, chosenStrategy, sceneVars, running>>

\* setStrategy if it also re-dispatched the pass suspended on a fetch
setStrategyRedispatching(strategy) ==
  /\ chosenStrategy # strategy
  /\ chosenStrategy' = strategy
  /\ passStrategy' = IF import_started THEN strategy ELSE passStrategy
  /\ UNCHANGED <<initPhase, objVars, queueVars, import_started, sceneVars, pc, passMetric,
                 passPath, utilities, planIdx, importedMeshes, budget, nb_bits, running>>

setStrategy(strategy) ==
  /\ chosenStrategy # strategy
  /\ chosenStrategy' = strategy
  /\ UNCHANGED <<initPhase, objVars, queueVars, import_started, passVars, sceneVars>>

Next ==
  \/ \E o \in Objects : InitObject(o)
  \/ \E o \in Objects : InitObjectFail(o)
  \/ \E o \in Objects, l \in LevelIdx : DownloadDone(o, l)
  \/ \E o \in Objects, l \in LevelIdx : DownloadFail(o, l)
  \/ \E o \in Objects, l \in LevelIdx : DecodeDone(o, l)
  \/ \E o \in Objects, l \in LevelIdx : DecodeFail(o, l)
  \/ naive1
  \/ greedy1
  \/ proposed1
  \/ greedy2
  \/ uniform2
  \/ hybrid2
  \/ AnimImportSkip
  \/ DelayDone
  \/ \E strategy \in Strategy : setStrategy(strategy)

Spec == Init /\ [][Next]_vars

(***************************************************************************)
(* MuseumObject driven through its public interface: besides _init_, any   *)
(* caller may call import with any level at any time.                      *)
(***************************************************************************)
LevelArgs == -1..(MaxLevels + 1)

ClientImport(o, level) ==
  /\ asked' = AskedAfter(initialized, levels, asked, o, level)
  /\ IF ImportOutcome(initialized, levels, asked, o, level) = "start"
     THEN /\ fetch' = [fetch EXCEPT ![o][level] = "download"]
          /\ ioCount' = [ioCount EXCEPT ![o][level] = @ + 1]
     ELSE UNCHANGED <<fetch, ioCount>>
  /\ UNCHANGED <<initPhase, initialized, levels, enabled, currentLevel, queueVars,
                 import_started, chosenStrategy, sceneVars, passVars>>

ObjectNext ==
  \/ \E o \in Objects : InitObject(o)
  \/ \E o \in Objects : InitObjectFail(o)
  \/ \E o \in Objects, l \in LevelIdx : DownloadDone(o, l)
  \/ \E o \in Objects, l \in LevelIdx : DownloadFail(o, l)
  \/ \E o \in Objects, l \in LevelIdx : DecodeDone(o, l)
  \/ \E o \in Objects, l \in LevelIdx : DecodeFail(o, l)
  \/ \E o \in Objects, level \in LevelArgs : ClientImport(o, level)

ObjectSpec == Init /\ [][ObjectNext]_vars

(***************************************************************************)
(* SpeedManager driven through its public interface, and the budget lines  *)
(* of greedy2 / uniform2 / hybrid2 applied to its two estimates.           *)
(***************************************************************************)
MaxPushes == 3

PushBandwidth(pBandwidth) ==
  /\ bandwidthQueue' = pushBandwidth(bandwidthQueue, pBandwidth)
  /\ UNCHANGED <<initPhase, objVars, dSpeedQueue, import_started, chosenStrategy, sceneVars, passVars>>

PushDSpeed(pDSpeed) ==
  /\ dSpeedQueue' = pushDSpeed(dSpeedQueue, pDSpeed)
  /\ UNCHANGED <<initPhase, objVars, bandwidthQueue, import_started, chosenStrategy, sceneVars, passVars>>

ComputeBudget ==
  /\ budget' = Budget(getBandwidth(bandwidthQueue), getDSpeed(dSpeedQueue))
  /\ UNCHANGED <<initPhase, objVars, queueVars, import_started, chosenStrategy, sceneVars, pc,
                 passStrategy, passMetric, passPath, utilities, planIdx, importedMeshes, nb_bits,
                 running>>

SpeedNext ==
  \/ \E pBandwidth \in BandwidthSamples :
       Len(bandwidthQueue) < MaxPushes /\ PushBandwidth(pBandwidth)
  \/ \E pDSpeed \in BandwidthSamples :
       Len(dSpeedQueue) < MaxPushes /\ PushDSpeed(pDSpeed)
  \/ ComputeBudget

SpeedSpec == Init /\ [][SpeedNext]_vars

(***************************************************************************)
(* SpeedManager alone, pushed without limit: the queues bound themselves.  *)
(***************************************************************************)
QueueNext ==
  \/ \E pBandwidth \in BandwidthSamples : PushBandwidth(pBandwidth)
  \/ \E pDSpeed \in DSpeedSamples : PushDSpeed(pDSpeed)

QueueSpec == Init /\ [][QueueNext]_vars

(***************************************************************************)
(* The application switching strategy and metric while the loop runs: the  *)
(* utilities a pass computes are values of the metric chosen when it runs. *)
(***************************************************************************)
ChooseMetric == {"Surface", "Distance", "Visible", "Potential", "Visible_Potential"}

\* the values calcUtility can return under each metric: an inverse squared
\* distance or a scaled area over it is positive, a screen area is 0 or
\* positive, and visible_potential is a positive area or -cos(...) < 0
UtilRange(metric) ==
  CASE metric = "Distance" -> {1, 2}
    [] metric = "Surface" -> {1, 2}
    [] metric = "Visible" -> {0, 1, 2}
    [] metric = "Potential" -> {0, 1, 2}
    [] metric = "Visible_Potential" -> {-1, 1, 2}

\* the metrics the application switches between: one of each kind of range
MetricSamples == {"Distance", "Visible", "Visible_Potential"}

\* calcUtility of every object for one camera, under the metric chosen now
calcUtility == [Objects -> UtilRange(chosenMetric)]

setMetric(metric) ==
  /\ chosenMetric # metric
  /\ chosenMetric' = metric
  /\ UNCHANGED <<initPhase, objVars, queueVars, import_started, chosenStrategy, passVars,
                 metricVars, hullVars, cameraVars, visibles>>

ModeNext ==
  \/ \E o \in Objects : InitObject(o)
  \/ \E o \in Objects, l \in LevelIdx : DownloadDone(o, l)
  \/ \E o \in Objects, l \in LevelIdx : DecodeDone(o, l)
  \/ \E camNow \in Cameras, camLater \in Cameras, utilNow \in calcUtility :
       naive1Pass(camNow, camLater, utilNow)
  \/ \E camNow \in Cameras, camLater \in Cameras, utilLater \in calcUtility :
       greedy1Pass(camNow, camLater, utilLater)
  \/ \E camNow \in Cameras, camLater \in Cameras, utilLater \in calcUtility :
       proposed1Pass(camNow, camLater, utilLater)
  \/ \E utilNow \in calcUtility : greedy2Pass(utilNow)
  \/ \E utilNow \in calcUtility : uniform2Pass(utilNow)
  \/ \E cam \in Cameras, utilNow \in calcUtility : hybrid2Pass(cam, utilNow)
  \/ AnimImportSkip
  \/ DelayDone
  \/ \E strategy \in Strategy : setStrategy(strategy)
  \/ \E metric \in MetricSamples : setMetric(metric)

ModeSpec == Init /\ [][ModeNext]_vars

(***************************************************************************)
(* Metrics.visible_potential as a function of the two screen areas.        *)
(***************************************************************************)
\* areas on the screen, as fractions of the screen: getSurfaceOnScreen clips
\* the hull to the unit square, so that an area lies between 0 and 1
AreaSamples == {RInt(0), <<1, 4>>, <<1, 2>>, RInt(1)}

\* Math.cos on [0, 1] by its series up to the term of degree 6 (the rest is
\* below 1 / 40320), in Horner form; exact in 0
Cos(x) ==
  LET x2 == RMul(x, x)
      h3 == RAdd(RInt(1), RNeg(RDiv(x2, RInt(30))))
      h2 == RAdd(RInt(1), RNeg(RMul(RDiv(x2, RInt(12)), h3)))
  IN RAdd(RInt(1), RNeg(RMul(RDiv(x2, RInt(2)), h2)))

\* visible_potential if it fell back on the potential area itself
visible_potential_unsigned(visible, potential) ==
  IF REq(visible, RInt(0)) THEN potential ELSE visible

\* let score = visible(); if (score == 0) score = -Math.cos(potential())
visible_potential(visible, potential) ==
  IF REq(visible, RInt(0)) THEN RNeg(Cos(potential)) ELSE visible

\* calcUtility(object, camera) under Visible_Potential
calcVisiblePotential(o) ==
  /\ score[o] = NoScore
  /\ score' = [score EXCEPT ![o] = visible_potential(screenArea[o].visible,
                                                      screenArea[o].potential)]
  /\ UNCHANGED <<initPhase, objVars, queueVars, import_started, chosenStrategy, passVars,
                 chosenMetric, screenArea, hullVars, cameraVars, visibles>>

MetricInit ==
  /\ Constructed
  /\ screenArea \in [Objects -> [visible : AreaSamples, potential : AreaSamples]]
  /\ score = [o \in Objects |-> NoScore]
  /\ HullIdle
  /\ CameraIdle

MetricNext == \E o \in Objects : calcVisiblePotential(o)

MetricSpec == MetricInit /\ [][MetricNext]_vars

(***************************************************************************)
(* ConvexHull and Metrics.visible on the projected corners of a box. A     *)
(* Vector2 is identified by its position in the array: the code compares   *)
(* points by reference.                                                    *)
(***************************************************************************)
MaxCorners == 4

\* projected corners: screen coordinates x, y and the sign of the depth z
CornerSamples == [x : {RInt(0), RInt(1)}, y : {RInt(0), <<1, 2>>, RInt(1)}, z : {-1, 1}]

\* insertion of p after the elements whose x is not greater: the sort is stable
RECURSIVE InsertByX(_, _)
InsertByX(sorted, p) ==
  IF sorted = <<>> THEN <<p>>
  ELSE IF RGt(Head(sorted).x, p.x) THEN <<p>> \o sorted
       ELSE <<Head(sorted)>> \o InsertByX(Tail(sorted), p)

\* points.sort((v1, v2) => v1.x - v2.x)
RECURSIVE SortByX(_, _)
SortByX(points, sorted) ==
  IF points = <<>> THEN sorted ELSE SortByX(Tail(points), InsertByX(sorted, Head(points)))

\* the orientation test made with val <= 0: a collinear point is better too
isBetterOrCollinear(pointToTest, pointToCompareTo, origin) ==
  LET p == origin
      q == pointToTest
      r == pointToCompareTo
      val == RSub(RMul(RSub(q.y, p.y), RSub(r.x, q.x)), RMul(RSub(q.x, p.x), RSub(r.y, q.y)))
  IN ~RGt(val, RInt(0))

\* val < 0 with p = origin, q = pointToTest, r = pointToCompareTo
isBetterPoint(pointToTest, pointToCompareTo, origin) ==
  LET p == origin
      q == pointToTest
      r == pointToCompareTo
      val == RSub(RMul(RSub(q.y, p.y), RSub(r.x, q.x)), RMul(RSub(q.x, p.x), RSub(r.y, q.y)))
  IN RGt(RInt(0), val)

\* for (const v of points) if (endpoint == pointOnHull || isBetterPoint(...)) endpoint = v
RECURSIVE NextEndpoint(_, _, _, _)
NextEndpoint(points, pointOnHull, endpoint, v) ==
  IF v > Len(points) THEN endpoint
  ELSE IF endpoint = pointOnHull \/ isBetterPoint(points[v], points[endpoint], points[pointOnHull])
       THEN NextEndpoint(points, pointOnHull, v, v + 1)
       ELSE NextEndpoint(points, pointOnHull, endpoint, v + 1)

\* do { hull.push(pointOnHull); ...; pointOnHull = endpoint } while (endpoint != firstPoint),
\* on the sorted array, points as indices; at most fuel iterations are followed
RECURSIVE Wrap(_, _, _, _)
Wrap(points, pointOnHull, hull, fuel) ==
  LET endpoint == NextEndpoint(points, pointOnHull, 1, 1)
  IN IF endpoint = 1 \/ fuel = 0 THEN Append(hull, pointOnHull)
     ELSE Wrap(points, endpoint, Append(hull, pointOnHull), fuel - 1)

computeConvexHull(points) ==
  LET sorted == SortByX(points, <<>>)
      hull == Wrap(sorted, 1, <<>>, 2 * Len(points))
  IN [i \in 1..Len(hull) |-> sorted[hull[i]]]

\* the shoelace sum of a closed ring
RECURSIVE Shoelace(_, _)
Shoelace(nodelist, i) ==
  IF i > Len(nodelist) THEN RInt(0)
  ELSE RAdd(RSub(RMul(nodelist[i - 1].x, nodelist[i].y), RMul(nodelist[i - 1].y, nodelist[i].x)),
            Shoelace(nodelist, i + 1))

RAbs(a) == <<Abs(a[1]), a[2]>>

\* Math.abs(surface) / 2 of the first ring, 0 without a ring
polygonSurface(polygon) ==
  IF polygon = <<>> THEN RInt(0) ELSE RDiv(RAbs(Shoelace(polygon, 2)), RInt(2))

\* intersection(hull, screen) for a convex hull whose points are all on the
\* screen [0, 1] x [0, 1]: the hull itself as a closed ring, nothing when the
\* hull has no area
intersection(hull) ==
  LET ring == Append(hull, hull[1])
  IN IF Len(hull) < 3 \/ REq(Shoelace(ring, 2), RInt(0)) THEN <<>> ELSE ring

getSurfaceOnScreen(points) == polygonSurface(intersection(computeConvexHull(points)))

\* the corners in front of the camera: to2D.z >= 0
InFront(cs) == SelectSeq(cs, LAMBDA c : c.z >= 0)

\* Metrics.visible: if (corners.length <= 2) return 0
visible(cs) == IF Len(InFront(cs)) <= 2 THEN RInt(0) ELSE getSurfaceOnScreen(InFront(cs))

calcVisible ==
  /\ surface = NoScore
  /\ surface' = visible(corners)
  /\ UNCHANGED <<initPhase, objVars, queueVars, import_started, chosenStrategy, passVars,
                 chosenMetric, metricVars, corners, cameraVars, visibles>>

HullInit ==
  /\ Constructed
  /\ MetricIdle
  /\ corners \in UNION {[1..n -> CornerSamples] : n \in 0..MaxCorners}
  /\ surface = NoScore
  /\ CameraIdle

HullNext == calcVisible

HullSpec == HullInit /\ [][HullNext]_vars

\* projected corners that passed the test to2D.z >= 0 of Metrics.visible
FrontSamples == {c \in CornerSamples : c.z >= 0}

\* a box whose corners are all in front of the camera
FrontInit ==
  /\ Constructed
  /\ MetricIdle
  /\ corners \in UNION {[1..n -> FrontSamples] : n \in 0..MaxCorners}
  /\ surface = NoScore
  /\ CameraIdle

FrontSpec == FrontInit /\ [][HullNext]_vars

(***************************************************************************)
(* CameraManager: the linear prediction of the camera. Vector3 and         *)
(* Quaternion objects live in the heap and are mutated in place; a         *)
(* quaternion is a rotation about the vertical axis, by its angle in       *)
(* degrees.                                                                *)
(***************************************************************************)
VectorSamples == {V(0, 0), V(1, 0), V(1, 2)}

AngleSamples == {RInt(0), RInt(10)}

\* frame times in ms
DeltaTimeSamples == {16, 20}

\* prediction delays in seconds: a fetch time, the horizon
DeltaSamples == {<<1, 2>>, RInt(HORIZON)}

subtract(u, v) == <<RSub(u[1], v[1]), RSub(u[2], v[2])>>

add(u, v) == <<RAdd(u[1], v[1]), RAdd(u[2], v[2])>>

scale(u, k) == <<RMul(u[1], k), RMul(u[2], k)>>

\* quaternions of rotations about one axis
multiply(q, r) == RAdd(q, r)

Inverse(q) == RNeg(q)

Slerp(q, r, amount) == RAdd(q, RMul(RSub(r, q), amount))

\* Quaternion.FromEulerAngles(0, -Math.PI, 0)
HalfTurnBack == RInt(-180)

\* a clone that shared the vectors of the camera it copies
cloneSharing(camera) == camera

\* camera.clone("futureCamera"): a camera with vectors of its own
clone(camera) ==
  [position |-> "futureCamera.position", rotation |-> "futureCamera.rotation",
   rotationQuaternion |-> "futureCamera.rotationQuaternion"]

\* the heap once the vectors of camera are copied into those of copy
Cloned(h, camera, copy) ==
  [h EXCEPT ![copy.position] = h[camera.position],
            ![copy.rotation] = h[camera.rotation],
            ![copy.rotationQuaternion] = h[camera.rotationQuaternion]]

\* delta * 1000 / deltaTime
Factor(delta) == RDiv(RMul(delta, RInt(1000)), RInt(deltaTime))

\* the heap h after getCameraInTime(delta)
CameraInTime(h, delta) ==
  LET future == clone(currentCamera)
      h0 == Cloned(h, currentCamera, future)
      deltaPos == scale(subtract(h0[future.position], h0[prevPosition]), Factor(delta))
      h1 == [h0 EXCEPT ![future.position] = add(@, deltaPos)]
      currentRotation == h1[currentCamera.rotationQuaternion]
      deltaRotQuatUnscaled == multiply(currentRotation, Inverse(h1[prevRotQuaternion]))
      nextRotation == Slerp(currentRotation, multiply(currentRotation, deltaRotQuatUnscaled),
                            Factor(delta))
      deltaRot == scale(subtract(h1[future.rotation], h1[prevRotation]), Factor(delta))
      h2 == IF isWebXR
            THEN [h1 EXCEPT ![future.rotationQuaternion] = multiply(nextRotation, HalfTurnBack)]
            ELSE [h1 EXCEPT ![future.rotation] = add(@, deltaRot)]
  IN h2

getCameraInTime(delta) ==
  /\ heap' = CameraInTime(heap, delta)
  /\ futureCamera' = clone(currentCamera)
  /\ UNCHANGED <<initPhase, objVars, queueVars, import_started, chosenStrategy, passVars,
                 chosenMetric, metricVars, hullVars, deltaTime, isWebXR, visibles>>

\* prevPosition = cam.position.clone(), and the rotation the camera uses
Saved(h) ==
  IF isWebXR
  THEN [h EXCEPT ![prevPosition] = h[currentCamera.position],
                 ![prevRotQuaternion] = h[currentCamera.rotationQuaternion]]
  ELSE [h EXCEPT ![prevPosition] = h[currentCamera.position],
                 ![prevRotation] = h[currentCamera.rotation]]

saveCameraPosition ==
  /\ heap' = Saved(heap)
  /\ UNCHANGED <<initPhase, objVars, queueVars, import_started, chosenStrategy, passVars,
                 chosenMetric, metricVars, hullVars, futureCamera, deltaTime, isWebXR,
                 visibles>>

\* a frame in which the camera moved and turned since the last one
CameraInit ==
  /\ Constructed
  /\ MetricIdle
  /\ HullIdle
  /\ futureCamera = NoCamera
  /\ deltaTime \in DeltaTimeSamples
  /\ isWebXR \in BOOLEAN
  /\ \E pos \in VectorSamples, prevPos \in VectorSamples :
       \/ /\ ~isWebXR
          /\ \E rot \in VectorSamples, prevRot \in VectorSamples :
               heap = [HeapAfterConstructor EXCEPT !["camera.position"] = pos,
                                                   !["prevPosition"] = prevPos,
                                                   !["camera.rotation"] = rot,
                                                   !["prevRotation"] = prevRot]
       \/ /\ isWebXR
          /\ \E rot \in AngleSamples, prevRot \in AngleSamples :
               heap = [HeapAfterConstructor EXCEPT !["camera.position"] = pos,
                                                   !["prevPosition"] = prevPos,
                                                   !["camera.rotationQuaternion"] = rot,
                                                   !["prevRotQuaternion"] = prevRot]

CameraNext ==
  \/ \E delta \in DeltaSamples : getCameraInTime(delta)
  \/ saveCameraPosition

CameraSpec == CameraInit /\ [][CameraNext]_vars

(***************************************************************************)
(* A session left alone: the default strategy, the camera standing still   *)
(* with every object in its frustum, the render loop calling anim_import   *)
(* on every frame, the timer of the delay firing and every request of the  *)
(* network getting its answer or its error.                                *)
(***************************************************************************)
\* the frustum of the still camera
StillCamera == Objects

\* calcUtility of each object from the still camera
StillUtility == [o \in Objects |-> 1]

\* a frame of the render loop that passes the guard
StillTick == naive1Pass(StillCamera, StillCamera, StillUtility)

\* an answer of the network or of the decoder
Completion ==
  \/ \E o \in Objects : InitObject(o)
  \/ \E o \in Objects, l \in LevelIdx : DownloadDone(o, l)
  \/ \E o \in Objects, l \in LevelIdx : DecodeDone(o, l)

\* an error of the network or of the decoder
Failure ==
  \/ \E o \in Objects : InitObjectFail(o)
  \/ \E o \in Objects, l \in LevelIdx : DownloadFail(o, l)
  \/ \E o \in Objects, l \in LevelIdx : DecodeFail(o, l)

StillNext ==
  \/ Completion
  \/ Failure
  \/ StillTick
  \/ AnimImportSkip
  \/ DelayDone

StillSpec ==
  /\ Init
  /\ [][StillNext]_vars
  /\ WF_vars(StillTick)
  /\ WF_vars(DelayDone)
  /\ WF_vars(Completion \/ Failure)

(***************************************************************************)
(* A session under the budgeted strategies in which no request fails: the  *)
(* render loop calls anim_import on every frame, the timer of the delay    *)
(* fires and every request gets its answer.                                *)
(***************************************************************************)
\* a frame of the render loop that passes the guard
BudgetedTick ==
  \/ greedy2
  \/ uniform2
  \/ hybrid2

LoadNext ==
  \/ Completion
  \/ BudgetedTick
  \/ AnimImportSkip
  \/ DelayDone
  \/ \E strategy \in Budgeted : setStrategy(strategy)

\* the guard of anim_import is free under a budgeted strategy and the frame
\* takes it: the steps of BudgetedTick, by their effect on the flag
BudgetedPassBegins ==
  /\ LoopRunning
  /\ Guard
  /\ chosenStrategy \in Budgeted
  /\ import_started' = TRUE

LoadSpec ==
  /\ Init
  /\ [][LoadNext]_vars
  /\ WF_import_started(BudgetedPassBegins)
  /\ WF_vars(DelayDone)
  /\ WF_vars(Completion)

(***************************************************************************)
(* The application run with the strategies that fetch one level per pass:  *)
(* naive1, greedy1 and proposed1, the user switching between them, every   *)
(* request being served.                                                   *)
(***************************************************************************)
OneAtATime == Strategy \ Budgeted

OneTick ==
  \/ naive1
  \/ greedy1
  \/ proposed1

ScopeNext ==
  \/ Completion
  \/ OneTick
  \/ AnimImportSkip
  \/ DelayDone
  \/ \E strategy \in OneAtATime : setStrategy(strategy)

ScopeSpec == Init /\ [][ScopeNext]_vars

(***************************************************************************)
(* The queries a strategy makes while it selects: getVisibleObjects,       *)
(* getNotVisibleObjects and Metrics.calcUtility, called on the active      *)
(* camera or on a predicted one once the catalog is initialised. Which     *)
(* objects are in the frustum and the value of the metric are inputs.      *)
(***************************************************************************)
\* Quaternion.FromEulerAngles(0, Math.PI, 0)
HalfTurn == RInt(180)

\* the filter entered with the camera still rotated
LeftRotated(q) == q

\* cam.rotationQuaternion.multiplyInPlace(Quaternion.FromEulerAngles(0, -Math.PI, 0))
RotatedBack(q) == multiply(q, HalfTurnBack)

\* cam instanceof WebXRCamera: the active camera of an XR session (a
\* predicted camera is not one)
IsWebXRCamera(cam) == isWebXR /\ cam = currentCamera

\* the heap once the frustum planes of cam are computed: the XR camera is
\* rotated by a half turn, its matrices are read, and it is rotated back
AfterFrustumPlanes(cam) ==
  IF IsWebXRCamera(cam)
  THEN [heap EXCEPT ![cam.rotationQuaternion] = RotatedBack(multiply(@, HalfTurn))]
  ELSE heap

\* the cameras a strategy passes to the queries
CameraArgs == {currentCamera} \cup (IF futureCamera = NoCamera THEN {} ELSE {futureCamera})

getVisibleObjectsCall(cam, inFrustum) ==
  /\ LoopRunning
  /\ heap' = AfterFrustumPlanes(cam)
  /\ visibles' = [by |-> "getVisibleObjects", cam |-> cam.position,
                  objects |-> SeqOf(getVisibleObjects(inFrustum), 1)]
  /\ UNCHANGED <<initPhase, objVars, queueVars, import_started, chosenStrategy, passVars,
                 chosenMetric, metricVars, hullVars, futureCamera, deltaTime, isWebXR>>

getNotVisibleObjectsCall(cam, inFrustum) ==
  /\ LoopRunning
  /\ heap' = AfterFrustumPlanes(cam)
  /\ visibles' = [by |-> "getNotVisibleObjects", cam |-> cam.position,
                  objects |-> SeqOf(getNotVisibleObjects(inFrustum), 1)]
  /\ UNCHANGED <<initPhase, objVars, queueVars, import_started, chosenStrategy, passVars,
                 chosenMetric, metricVars, hullVars, futureCamera, deltaTime, isWebXR>>

\* the vectors of the camera potential() clones as "dummy0"
Dummy ==
  [position |-> "dummy0.position", rotation |-> "dummy0.rotation",
   rotationQuaternion |-> "dummy0.rotationQuaternion"]

DummyAddr == {Dummy.position, Dummy.rotation, Dummy.rotationQuaternion}

\* potential(): camera.clone("dummy0"), cameraCopy.setTarget(box.centerWorld)
\* turning the copy towards the object, cameraCopy.dispose()
AfterPotential(cam, towards) ==
  LET h0 == [a \in Addr \cup DummyAddr |->
               IF a = Dummy.position THEN heap[cam.position]
               ELSE IF a = Dummy.rotation THEN heap[cam.rotation]
               ELSE IF a = Dummy.rotationQuaternion THEN heap[cam.rotationQuaternion]
               ELSE heap[a]]
      h1 == [h0 EXCEPT ![Dummy.rotation] = towards]
  IN [a \in Addr |-> h1[a]]

\* the rotation that makes a camera look at the centre of the box of o
Towards(o) == V(o, 0)

\* the metrics that call potential() when the object is not on screen
CallsPotential(metric, u) ==
  \/ metric = "Potential"
  \/ metric = "Visible_Potential" /\ u < 0

\* Metrics.calcUtility(object, camera) returning u
calcUtilityCall(o, cam, u) ==
  /\ LoopRunning
  /\ score[o] = NoScore
  /\ score' = [score EXCEPT ![o] = RInt(u)]
  /\ heap' = IF CallsPotential(chosenMetric, u) THEN AfterPotential(cam, Towards(o)) ELSE heap
  /\ UNCHANGED <<initPhase, objVars, queueVars, import_started, chosenStrategy, passVars,
                 chosenMetric, screenArea, hullVars, futureCamera, deltaTime, isWebXR,
                 visibles>>

\* a frame of a session, XR or not, the camera turned or not
QueryInit ==
  /\ Constructed
  /\ MetricIdle
  /\ HullIdle
  /\ futureCamera = NoCamera
  /\ deltaTime \in DeltaTimeSamples
  /\ isWebXR \in BOOLEAN
  /\ \E rot \in AngleSamples :
       heap = IF isWebXR
              THEN [HeapAfterConstructor EXCEPT !["camera.rotationQuaternion"] = rot]
              ELSE [HeapAfterConstructor EXCEPT !["camera.rotation"] = <<rot, RInt(0)>>]

QueryNext ==
  \/ Completion
  \/ LoopRunning /\ getCameraInTime(RInt(HORIZON))
  \/ \E cam \in CameraArgs, inFrustum \in Cameras : getVisibleObjectsCall(cam, inFrustum)
  \/ \E cam \in CameraArgs, inFrustum \in Cameras : getNotVisibleObjectsCall(cam, inFrustum)
  \/ \E o \in Objects, cam \in CameraArgs, u \in UtilRange(chosenMetric) :
       calcUtilityCall(o, cam, u)
  \/ \E metric \in MetricSamples : setMetric(metric)

QuerySpec == QueryInit /\ [][QueryNext]_vars

(***************************************************************************)
(* The frames of the render loop: scene.render() moves the active camera   *)
(* as the user steers it, update() calls anim_import, which runs the       *)
(* strategy down to its first await (every getCameraInTime call of the     *)
(* strategy is made before it), and then saveCameraPosition. The strategy  *)
(* is naive1 or greedy1, every object is in sight and every request is     *)
(* served.                                                                 *)
(***************************************************************************)
\* where the user can steer the camera: a position and an angle about the
\* vertical axis
PoseSamples == {[position |-> V(1, 0), angle |-> RInt(0)],
                [position |-> V(1, 2), angle |-> RInt(10)]}

\* the camera manager's objects: the two snapshots of the last frame
PrevAddr == {prevPosition, prevRotation, prevRotQuaternion}

\* the objects of the active camera
CameraAddr ==
  {currentCamera.position, currentCamera.rotation, currentCamera.rotationQuaternion}

\* the objects of the camera a prediction returns
FutureAddr ==
  LET future == clone(currentCamera)
  IN {future.position, future.rotation, future.rotationQuaternion}

RECURSIVE Predictions(_, _)
\* the heap h after getCameraInTime was called with each delay of deltas
Predictions(h, deltas) ==
  IF deltas = <<>> THEN h
  ELSE Predictions(CameraInTime(h, Head(deltas)), Tail(deltas))

\* update() with the snapshot taken before anim_import is called
AfterUpdateSavingFirst(h, deltas) == Predictions(Saved(h), deltas)

\* update(): anim_import() makes the predictions of the pass, then
\* CameraManager.saveCameraPosition()
AfterUpdate(h, deltas) == Saved(Predictions(h, deltas))

\* naive1 predicts the camera at the horizon
Naive1Deltas == <<RInt(HORIZON)>>

\* greedy1 predicts the camera at the horizon, then at t_next of each
\* candidate level
Greedy1Deltas(cs) ==
  <<RInt(HORIZON)>> \o
  [i \in 1..Len(cs) |-> FetchTime(getLevelSize(cs[i].object, cs[i].nextLevel),
                                  getBandwidth(bandwidthQueue), getDSpeed(dSpeedQueue))]

\* scene.render(): the inputs of the user move the active camera
render(pose) ==
  /\ LoopRunning
  /\ heap' = IF isWebXR
             THEN [heap EXCEPT ![currentCamera.position] = pose.position,
                               ![currentCamera.rotationQuaternion] = pose.angle]
             ELSE [heap EXCEPT ![currentCamera.position] = pose.position,
                               ![currentCamera.rotation] = <<RInt(0), pose.angle>>]
  /\ UNCHANGED <<initPhase, objVars, queueVars, import_started, chosenStrategy, passVars,
                 chosenMetric, metricVars, hullVars, futureCamera, deltaTime, isWebXR,
                 visibles>>

\* update() of a frame in which no pass starts: importOn is off, or
\* anim_import returns at its guard
updateOnly ==
  /\ LoopRunning
  /\ saveCameraPosition

\* what update() leaves of the scene besides the heap and the last prediction
updateFrame == UNCHANGED <<chosenMetric, metricVars, hullVars, deltaTime, isWebXR, visibles>>

\* update() of a frame in which anim_import starts naive1
updateNaive1(camNow, camLater, utilNow) ==
  /\ PassBegins("Naive_1")
  /\ budget' = RInt(0)
  /\ nb_bits' = 0
  /\ SingleBlock(CandidatesOf(camNow, camLater), NaiveIdx(camNow, camLater, utilNow))
  /\ heap' = AfterUpdate(heap, Naive1Deltas)
  /\ futureCamera' = clone(currentCamera)
  /\ updateFrame

\* update() of a frame in which anim_import starts greedy1
updateGreedy1(camNow, camLater, utilLater) ==
  /\ PassBegins("Greedy_1")
  /\ budget' = RInt(0)
  /\ nb_bits' = 0
  /\ SingleBlock(CandidatesOf(camNow, camLater), GreedyIdx(camNow, camLater, utilLater))
  /\ heap' = AfterUpdate(heap, Greedy1Deltas(CandidatesOf(camNow, camLater)))
  /\ futureCamera' = clone(currentCamera)
  /\ updateFrame

\* every object stays in the frustum wherever the camera is steered; the
\* metric favours one object or the other
TickUtilities == {[o \in Objects |-> IF o = first THEN 2 ELSE 1] : first \in Objects}

TickInit ==
  /\ Constructed
  /\ MetricIdle
  /\ HullIdle
  /\ heap = HeapAfterConstructor
  /\ futureCamera = NoCamera
  /\ deltaTime = 16
  /\ isWebXR \in BOOLEAN

TickNext ==
  \/ Completion
  \/ \E pose \in PoseSamples : render(pose)
  \/ updateOnly
  \/ \E utilNow \in TickUtilities : updateNaive1(Objects, Objects, utilNow)
  \/ \E utilLater \in TickUtilities : updateGreedy1(Objects, Objects, utilLater)
  \/ DelayDone
  \/ \E strategy \in {"Naive_1", "Greedy_1"} : setStrategy(strategy)

TickSpec == TickInit /\ [][TickNext]_vars

(***************************************************************************)
(* Properties of the scheduling pass (checked under Spec).                 *)
(***************************************************************************)
\* C1: at most one executeStrategy call is in flight at any time, and a step
\* taken while import_started is true starts no pass; the only fetches issued
\* while the flag is set are those of the pass in flight, as it resumes from the
\* import it awaited (a dropped call issues none and leaves nothing behind).
C1_OnePassInFlight ==
  [][ /\ running' <= 1
      /\ import_started => running' <= running
      /\ (import_started /\ ioCount' # ioCount) =>
            /\ pc = "fetch"
            /\ fetch[PassTarget[1]][PassTarget[2]] # "none"
            /\ fetch'[PassTarget[1]][PassTarget[2]] = "none" ]_vars

\* a frame arrives while a pass awaits its fetch: its call is dropped
C1_Witness == LoopRunning /\ import_started /\ pc = "fetch" /\ running = 1

\* C2: every pass that starts finishes and resets import_started: whenever no
\* part of a pass is left to run (anim_import returned or was left by an
\* exception), import_started is false.
C2_PassResetsFlag == pc \in {"idle", "aborted"} => ~import_started

\* the entries of the pass's utilities array that the selection raised: still
\* above the object's current level, or imported by this pass
Selected(i) ==
  \/ utilities[i].nextLevel # currentLevel[utilities[i].object]
  \/ \E k \in 1..Len(importedMeshes) :
       importedMeshes[k] = <<utilities[i].object, utilities[i].nextLevel>>

\* bytes of the levels the selection of the pass scheduled
SelectedCost ==
  SumSeq([i \in 1..Len(utilities) |->
            IF Selected(i) THEN getLevelSize(utilities[i].object, utilities[i].nextLevel)
            ELSE 0])

\* bytes of the levels the pass fetches: the selection, or the fallback level
ScheduledCost ==
  IF passPath = "fallback" /\ planIdx > 0
  THEN getLevelSize(PassTarget[1], PassTarget[2])
  ELSE SelectedCost

C10_FailureSkipsCandidate ==
  (passStrategy \in Budgeted /\ passPath = "normal") =>
     /\ pc # "aborted"
     /\ \A i \in 1..Len(utilities) :
          (pc = "delay" \/ (pc = "fetch" /\ i <= planIdx)) =>
              asked[utilities[i].object][utilities[i].nextLevel]

\* the strategy returned after the import of its first entry failed and the
\* import of a later entry loaded its mesh
C10_Witness ==
  /\ passStrategy \in Budgeted
  /\ passPath = "normal"
  /\ pc = "delay"
  /\ \E i, j \in 1..Len(utilities) :
       /\ i < j
       /\ utilities[i].nextLevel # currentLevel[utilities[i].object]
       /\ ~levels[utilities[i].object][utilities[i].nextLevel]
       /\ importedMeshes = << <<utilities[j].object, utilities[j].nextLevel>> >>

(***************************************************************************)
(* Properties of MuseumObject.import (checked under ObjectSpec).           *)
(***************************************************************************)
\* C3: a level is requested at most once: asked[l] never goes back to false,
\* a call of import on a level already asked (in flight, loaded or failed)
\* changes no state and starts no download, and no level is ever downloaded
\* more than once.
C3_RequestedOnce ==
  [][\A o \in Objects, l \in LevelIdx :
       /\ asked[o][l] => asked'[o][l]
       /\ asked[o][l] => ioCount'[o][l] = ioCount[o][l]
       /\ (asked[o][l] /\ ClientImport(o, l)) => UNCHANGED vars
       /\ ioCount'[o][l] <= 1]_vars

\* one level is in flight, one failed and one loaded: a call on each is refused
C3_Witness ==
  \E o \in Objects, l1, l2, l3 \in LevelIdx :
    /\ asked[o][l1] /\ fetch[o][l1] # "none"
    /\ asked[o][l2] /\ fetch[o][l2] = "none" /\ ~levels[o][l2] /\ ioCount[o][l2] = 1
    /\ asked[o][l3] /\ levels[o][l3]

\* C4: currentLevel never decreases, and when it is >= 0 some level at or above
\* it has its asked flag set.
C4_CurrentLevelMonotone ==
  [][\A o \in Objects :
       /\ currentLevel'[o] >= currentLevel[o]
       /\ currentLevel'[o] >= 0 =>
            \E l \in LevelIdx : l >= currentLevel'[o] /\ asked'[o][l]]_vars

\* level 2 is displayed and the decode of level 1 is about to complete
C4_Witness ==
  \E o \in Objects : currentLevel[o] = 2 /\ levels[o][0] /\ fetch[o][1] = "decode"

\* the import of (o, l) failed: asked, no download or decode running, no mesh
Failed(o, l) == asked[o][l] /\ fetch[o][l] = "none" /\ ~levels[o][l]

\* C5: a step in which the download or the decode of a level fails leaves
\* asked true, loads no mesh, leaves currentLevel and both queues unchanged and
\* makes _init_ fail when it awaited that import; a failed level stays failed
\* and is never downloaded again.
C5_FailureIsPermanent ==
  [][\A o \in Objects, l \in LevelIdx :
       /\ (fetch[o][l] # "none" /\ fetch'[o][l] = "none" /\ ~levels'[o][l]) =>
            /\ asked'[o][l]
            /\ levels' = levels
            /\ currentLevel' = currentLevel
            /\ enabled' = enabled
            /\ bandwidthQueue' = bandwidthQueue
            /\ dSpeedQueue' = dSpeedQueue
            /\ (initPhase[o] = "importing" /\ l = 0) => initPhase'[o] = "failed"
       /\ Failed(o, l) => (Failed(o, l))' /\ ioCount'[o][l] = ioCount[o][l]]_vars

\* a download failed after it started, while another level is displayed
C5_Witness ==
  \E o \in Objects, l \in LevelIdx :
    Failed(o, l) /\ ioCount[o][l] = 1 /\ currentLevel[o] >= 0 /\ bandwidthQueue # <<>>

\* C6: import(level) with level < 0 or level >= nb_levels throws the bounds
\* error, starts no download and leaves asked, levels and currentLevel as
\* they were.
C6_OutOfBoundsRefused ==
  [][\A o \in Objects, level \in LevelArgs :
       (initialized[o] /\ (level < 0 \/ level >= nb_levels(o)) /\ ClientImport(o, level)) =>
          /\ ImportOutcome(initialized, levels, asked, o, level) = "bounds"
          /\ UNCHANGED <<asked, levels, currentLevel, fetch, ioCount>>]_vars

\* C7: for each object with a loaded level, currentLevel is the highest loaded
\* level, its mesh is the only one enabled, and no loaded mesh is ever unloaded.
C7_OnlyHighestDisplayed ==
  [][\A o \in Objects :
       /\ \A l \in LevelIdx : levels[o][l] => levels'[o][l]
       /\ (\E l \in LevelIdx : levels'[o][l]) =>
            /\ currentLevel'[o] \in LevelIdx
            /\ levels'[o][currentLevel'[o]]
            /\ \A l \in LevelIdx : levels'[o][l] => l <= currentLevel'[o]
            /\ \A l \in LevelIdx : enabled'[o][l] <=> l = currentLevel'[o]]_vars

\* three levels of an object are loaded and the highest is displayed
C7_Witness ==
  \E o \in Objects :
    /\ levels[o][0] /\ levels[o][1] /\ levels[o][2]
    /\ currentLevel[o] = 2
    /\ enabled[o][2] /\ ~enabled[o][0] /\ ~enabled[o][1]

(***************************************************************************)
(* Properties of the budget (checked under SpeedSpec).                     *)
(***************************************************************************)
\* 2ab / (a + b)
HarmonicMean(a, b) == RDiv(RMul(RInt(2), RMul(a, b)), RAdd(a, b))

\* C9 (amended): the budget is bw * ds / (bw + ds) * BUFFER, which is half of
\* harmonicMean(bw, ds) * BUFFER; with both queues empty (both estimates at
\* the default 100) and BUFFER = 2 it is 100.
C9_BudgetIsHalfHarmonic ==
  [][ComputeBudget =>
       /\ REq(RMul(RInt(2), budget'),
              RMul(HarmonicMean(getBandwidth(bandwidthQueue), getDSpeed(dSpeedQueue)),
                   RInt(BUFFER)))
       /\ (bandwidthQueue = <<>> /\ dSpeedQueue = <<>>) => budget' = RInt(100)]_vars

\* the budget computed with no sample in either queue
C9_Witness == bandwidthQueue = <<>> /\ dSpeedQueue = <<>> /\ budget = RInt(100)

\* C9: the budget is harmonicMean(bw, ds) * BUFFER; with both queues empty and
\* BUFFER = 2 it is 200.
C9_BudgetIsHarmonic ==
  [][ComputeBudget =>
       /\ REq(budget',
              RMul(HarmonicMean(getBandwidth(bandwidthQueue), getDSpeed(dSpeedQueue)),
                   RInt(BUFFER)))
       /\ (bandwidthQueue = <<>> /\ dSpeedQueue = <<>>) => budget' = RInt(200)]_vars

(***************************************************************************)
(* Properties of the terminal state (checked under Spec).                  *)
(***************************************************************************)
\* C11: once checkAllLoaded is true it stays true, and from then on no step
\* starts a strategy, issues a fetch, sets import_started or changes an
\* object or a queue: a call of anim_import does nothing (import_started is
\* only reset, by the timer of the pass that loaded the last level).
C11_TerminalIsAbsorbing ==
  [][checkAllLoaded =>
       /\ checkAllLoaded'
       /\ running' <= running
       /\ pc' \in {pc, "idle"}
       /\ import_started' => import_started
       /\ UNCHANGED <<objVars, queueVars>>]_vars

\* every last level is loaded, the guard is released and frames keep coming
C11_Witness == checkAllLoaded /\ LoopRunning /\ ~import_started /\ pc = "idle"

\* C12 (amended): in every state where checkAllLoaded is true, the last level
\* nb_levels - 1 of every object is loaded, it is the object's currentLevel
\* and the one displayed, and no import is running; lower levels may never
\* have been loaded.
C12_TerminalShowsLastLevels ==
  checkAllLoaded =>
    \A o \in Objects :
      /\ levels[o][nb_levels(o) - 1]
      /\ currentLevel[o] = nb_levels(o) - 1
      /\ enabled[o][nb_levels(o) - 1]
      /\ \A l \in LevelIdx : fetch[o][l] = "none"

\* all last levels are loaded and a lower level of an object never was
C12_Witness ==
  /\ checkAllLoaded
  /\ \E o \in Objects, l \in LevelIdx : l < nb_levels(o) /\ ~levels[o][l] /\ ~asked[o][l]

\* C12: in every state where checkAllLoaded is true, every level
\* 0..nb_levels-1 of every object is loaded.
C12_TerminalHasAllLevels ==
  checkAllLoaded => \A o \in Objects, l \in LevelIdx : l < nb_levels(o) => levels[o][l]

(***************************************************************************)
(* Properties of the selection of the strategies (checked under Spec).     *)
(***************************************************************************)
\* a step in which anim_import passes its guard with strategy s chosen
Starts(s) == chosenStrategy = s /\ ~import_started /\ import_started'

\* the step issues exactly one fetch, that of candidate c
FetchesOnly(c) ==
  /\ pc' = "fetch"
  /\ \A o \in Objects, l \in LevelIdx :
       ioCount'[o][l] = ioCount[o][l] + (IF <<o, l>> = <<c.object, c.nextLevel>> THEN 1 ELSE 0)

\* C13: a naive1 pass with at least one candidate fetches exactly one
\* (object, level), a candidate whose quality * utility(now) no candidate
\* exceeds.
C13_NaiveFetchesBest ==
  [][Starts("Naive_1") =>
       \A camNow \in Cameras, camLater \in Cameras, utilNow \in [Objects -> UtilVals] :
         (naive1Pass(camNow, camLater, utilNow) /\ CandidatesOf(camNow, camLater) # <<>>) =>
            LET cs == CandidatesOf(camNow, camLater)
            IN \E i \in 1..Len(cs) :
                 /\ FetchesOnly(cs[i])
                 /\ \A j \in 1..Len(cs) :
                      ~RGt(NaiveScore(cs[j], utilNow), NaiveScore(cs[i], utilNow))]_vars

\* the score of greedy1 for candidate c with the estimates of the state
Greedy1Score(c, utilLater) ==
  GreedyScore(c, utilLater, getBandwidth(bandwidthQueue), getDSpeed(dSpeedQueue))

\* C14: a greedy1 pass with at least one candidate fetches exactly one
\* (object, level), a candidate whose utility(predicted camera) * quality /
\* fetchTime no candidate exceeds, whatever the sign of the utilities.
C14_GreedyFetchesBest ==
  [][Starts("Greedy_1") =>
       \A camNow \in Cameras, camLater \in Cameras, utilLater \in [Objects -> UtilVals] :
         (greedy1Pass(camNow, camLater, utilLater) /\ CandidatesOf(camNow, camLater) # <<>>) =>
            LET cs == CandidatesOf(camNow, camLater)
            IN \E i \in 1..Len(cs) :
                 /\ FetchesOnly(cs[i])
                 /\ \A j \in 1..Len(cs) :
                      ~RGt(Greedy1Score(cs[j], utilLater), Greedy1Score(cs[i], utilLater))]_vars

(***************************************************************************)
(* Properties of the selection of uniform2 (checked under Spec).           *)
(***************************************************************************)
Min(a, b) == IF a < b THEN a ELSE b

Max(a, b) == IF a > b THEN a ELSE b

\* the budget covers the last level of every object that has not loaded it:
\* no test nb_bits + cost > budget of an object that can still rise succeeds
AmpleBudget ==
  ~RGt(RInt(SumSeq([o \in Objects |->
                     IF levels[o][nb_levels(o) - 1] THEN 0
                     ELSE getLevelSize(o, nb_levels(o) - 1)])), PassBudget)

\* utilities giving every ranking of the objects, ties included (the
\* selection of uniform2 uses the utilities for the ranking alone)
Rankings == [Objects -> {1, 2}]

\* C15: in every state where a pass can start, with a budget that does not
\* bind, the selection of uniform2 raises
\* the targets in lock-step: after the k-th sweep the target of every object
\* is min(its last level, k), or its current level when that is higher, and
\* the selection ends with every object at its last level.
C15_UniformLockStep ==
  (LoopRunning /\ Guard /\ AmpleBudget) =>
    \A utilNow \in Rankings :
      /\ \A k \in 1..(MaxLevels - 1) :
           LET us == UniformSweeps(Ranked(Objects, utilNow), 1, k, 0, PassBudget)
           IN \A i \in 1..Len(us) :
                us[i].nextLevel = Max(currentLevel[us[i].object],
                                      Min(nb_levels(us[i].object) - 1, k))
      /\ LET us == uniform2Select(utilNow).utilities
         IN \A i \in 1..Len(us) : us[i].nextLevel = nb_levels(us[i].object) - 1

\* a uniform2 pass that started with every object at level 0 and a budget
\* covering both last levels selected the last level of both
C15_Witness ==
  /\ passStrategy = "Uniform_2"
  /\ passPath = "normal"
  /\ \A o \in Objects : currentLevel[o] = 0
  /\ ~RGt(RInt(getLevelSize(1, nb_levels(1) - 1) + getLevelSize(2, nb_levels(2) - 1)), budget)
  /\ \A i \in 1..Len(utilities) :
       utilities[i].nextLevel = nb_levels(utilities[i].object) - 1

(***************************************************************************)
(* Properties of the zero-upgrade fallback (checked under Spec).           *)
(***************************************************************************)
HasRoom(o) == currentLevel[o] + 1 < nb_levels(o)

\* o is an object of S with room to grow that no other such object of S
\* beats in utility
FallbackChoice(S, utilNow, o) ==
  /\ o \in S
  /\ HasRoom(o)
  /\ \A p \in S : HasRoom(p) => utilNow[p] <= utilNow[o]

FetchesNextOf(S, utilNow) ==
  \E o \in S : /\ FallbackChoice(S, utilNow, o)
               /\ FetchesOnly([object |-> o, nextLevel |-> currentLevel[o] + 1])

\* C16: a pass of greedy2 / uniform2 whose selection raised no target fetches
\* exactly one level, the level after the current one of the highest-utility
\* object that has room to grow; hybrid2 does so among the visible objects,
\* and among the others only when no visible object has room.
C16_FallbackFetchesNext ==
  [][(Starts("Greedy_2") \/ Starts("Uniform_2") \/ Starts("Hybrid_2")) =>
       \A utilNow \in [Objects -> UtilVals] :
         /\ (greedy2Pass(utilNow) /\ ~NewLevel(greedy2Select(utilNow).utilities))
              => FetchesNextOf(Objects, utilNow)
         /\ (uniform2Pass(utilNow) /\ ~NewLevel(uniform2Select(utilNow).utilities))
              => FetchesNextOf(Objects, utilNow)
         /\ \A cam \in Cameras :
              (hybrid2Pass(cam, utilNow) /\ ~NewLevel(hybrid2Select(cam, utilNow).utilities))
                => FetchesNextOf(IF \E o \in getVisibleObjects(cam) : HasRoom(o)
                                 THEN getVisibleObjects(cam)
                                 ELSE getNotVisibleObjects(cam), utilNow)]_vars

(***************************************************************************)
(* Properties of a pass without candidate (checked under Spec).            *)
(***************************************************************************)
\* the strategy returned [] to anim_import, which waits for its delay
ReturnsNothing ==
  /\ pc' = "delay"
  /\ importedMeshes' = <<>>
  /\ running' = running
  /\ UNCHANGED <<objVars, queueVars>>

NoRoom(S) == \A o \in S : ~HasRoom(o)

\* C17: a pass that finds no candidate - naive1 / greedy1 / proposed1 with no
\* level left to load among the objects in the frustum now or at the horizon,
\* greedy2 / uniform2 / hybrid2 with no object below its last level - returns
\* an empty list without raising, issues no fetch and leaves the objects and
\* the two queues as they were: a step that starts a pass either does all
\* that, or is a pass of no strategy on inputs without candidate.
C17_NoCandidateNoEffect ==
  [][(~import_started /\ import_started') =>
       \/ ReturnsNothing
       \/ /\ \A camNow, camLater \in Cameras :
               CandidatesOf(camNow, camLater) = <<>> =>
                 \A utilNow \in [Objects -> UtilVals] :
                   /\ ~(Starts("Naive_1") /\ naive1Pass(camNow, camLater, utilNow))
                   /\ ~(Starts("Greedy_1") /\ greedy1Pass(camNow, camLater, utilNow))
                   /\ ~(Starts("Proposed_1") /\ proposed1Pass(camNow, camLater, utilNow))
          /\ NoRoom(Objects) =>
               \A utilNow \in [Objects -> UtilVals] :
                 /\ ~(Starts("Greedy_2") /\ greedy2Pass(utilNow))
                 /\ ~(Starts("Uniform_2") /\ uniform2Pass(utilNow))
                 /\ ~(Starts("Hybrid_2") /\ \E cam \in Cameras : hybrid2Pass(cam, utilNow))]_vars

\* a pass of a one-candidate strategy returned without having selected
C17_Witness ==
  /\ import_started
  /\ pc = "delay"
  /\ passPath = "single"
  /\ utilities = <<>>
  /\ importedMeshes = <<>>
  /\ running = 0

(***************************************************************************)
(* Properties of SpeedManager (checked under QueueSpec).                   *)
(***************************************************************************)
\* the last n elements of s, all of s when it has fewer
LastN(s, n) == SubSeq(s, Max(1, Len(s) - n + 1), Len(s))

\* r is the arithmetic mean of the samples of q, 100 when q holds none
IsMeanOf(r, q) ==
  IF q = <<>> THEN r = RInt(100)
  ELSE REq(RMul(r, RInt(Len(q))), RInt(SumSeq(q)))

\* C18: each queue holds the last min(n, 10) samples pushed to it - a push
\* appends the sample and drops the oldest ones beyond 10 - and getBandwidth
\* / getDSpeed return the arithmetic mean of the samples held, 100 when no
\* sample was pushed.
C18_MeanOfLastTen ==
  /\ [](/\ Len(bandwidthQueue) <= 10
        /\ Len(dSpeedQueue) <= 10
        /\ IsMeanOf(getBandwidth(bandwidthQueue), bandwidthQueue)
        /\ IsMeanOf(getDSpeed(dSpeedQueue), dSpeedQueue))
  /\ [][(\A b \in BandwidthSamples :
           PushBandwidth(b) => bandwidthQueue' = LastN(Append(bandwidthQueue, b), 10))
        /\ (\A d \in DSpeedSamples :
              PushDSpeed(d) => dSpeedQueue' = LastN(Append(dSpeedQueue, d), 10))]_vars

\* both queues are full, the bandwidth queue with differing samples: the
\* next push evicts
C18_Witness ==
  /\ Len(bandwidthQueue) = 10
  /\ Len(dSpeedQueue) = 10
  /\ bandwidthQueue[1] # bandwidthQueue[2]
  /\ bandwidthQueue[1] # bandwidthQueue[10]

(***************************************************************************)
(* Properties of the throughput samples (checked under Spec).              *)
(***************************************************************************)
\* the (object, level) pairs whose import completed
Loaded == {ol \in Objects \X LevelIdx : levels[ol[1]][ol[2]]}

InFlight == {ol \in Objects \X LevelIdx : fetch[ol[1]][ol[2]] # "none"}

\* C19: each queue holds one sample per import whose download and decode
\* both completed and none for an import still in flight; no import is in
\* flight when a pass waits for its delay or when the guard is free for the
\* next pass, so the budget of a pass is computed from the samples of every
\* import completed before it.
C19_SamplesBeforeRelease ==
  /\ Len(bandwidthQueue) = Cardinality(Loaded)
  /\ Len(dSpeedQueue) = Cardinality(Loaded)
  /\ (LoopRunning /\ (pc = "delay" \/ ~import_started)) => InFlight = {}
  /\ (pc = "fetch" /\ passStrategy \in Budgeted /\ importedMeshes = <<>>)
       => budget = PassBudget

\* a pass of a budgeted strategy, started after an earlier pass loaded a
\* level, computed its budget from three samples
C19_Witness ==
  /\ pc = "fetch"
  /\ passStrategy \in Budgeted
  /\ importedMeshes = <<>>
  /\ Len(bandwidthQueue) = 3
  /\ bandwidthQueue[3] # bandwidthQueue[1]
  /\ budget = PassBudget

RunsOn(s) ==
  CASE s = "Naive_1" -> \E camNow \in Cameras, camLater \in Cameras, utilNow \in calcUtility :
                          naive1Pass(camNow, camLater, utilNow)
    [] s = "Greedy_1" -> \E camNow \in Cameras, camLater \in Cameras, utilLater \in calcUtility :
                           greedy1Pass(camNow, camLater, utilLater)
    [] s = "Proposed_1" -> \E camNow \in Cameras, camLater \in Cameras, utilLater \in calcUtility :
                             proposed1Pass(camNow, camLater, utilLater)
    [] s = "Greedy_2" -> \E utilNow \in calcUtility : greedy2Pass(utilNow)
    [] s = "Uniform_2" -> \E utilNow \in calcUtility : uniform2Pass(utilNow)
    [] s = "Hybrid_2" -> \E cam \in Cameras, utilNow \in calcUtility : hybrid2Pass(cam, utilNow)

\* C21: a pass that starts runs the strategy chosen at that moment and scores
\* with the metric chosen at that moment; a setStrategy or setMetric call made
\* while a pass is suspended changes nothing of the pass, of the objects or of
\* the queues, and the pass keeps its strategy, its metric and its selection
\* until it ends.
C21_ModeReadAtPassStart ==
  [][/\ (~import_started /\ import_started') =>
          /\ passStrategy' = chosenStrategy
          /\ passMetric' = chosenMetric
          /\ RunsOn(chosenStrategy)
     /\ (import_started /\ (chosenStrategy' # chosenStrategy \/ chosenMetric' # chosenMetric)) =>
          UNCHANGED <<passVars, objVars, queueVars, import_started>>
     /\ (import_started /\ import_started') =>
          /\ passStrategy' = passStrategy
          /\ passMetric' = passMetric
          /\ utilities' = utilities]_vars

\* a pass suspended on a fetch while both the strategy and the metric chosen
\* differ from those it runs with
C21_Witness ==
  /\ pc = "fetch"
  /\ chosenStrategy # passStrategy
  /\ chosenMetric # passMetric

(***************************************************************************)
(* The Visible_Potential metric (checked under MetricSpec).                *)
(***************************************************************************)
Scored(o) == score[o] # NoScore

\* C22: visible_potential returns the Visible score when it is not 0; when it
\* is 0 it returns minus the cosine of the Potential score, which is negative
\* and is -1 when the Potential score is 0 too; so an object whose Visible
\* score is 0 scores strictly below every object whose Visible score is positive.
C22_VisibleFirst ==
  \A o \in Objects : Scored(o) =>
    /\ ~REq(screenArea[o].visible, RInt(0)) => score[o] = screenArea[o].visible
    /\ REq(screenArea[o].visible, RInt(0)) =>
         /\ score[o] = RNeg(Cos(screenArea[o].potential))
         /\ RGt(RInt(0), score[o])
         /\ ~RGt(RInt(-1), score[o])
         /\ REq(screenArea[o].potential, RInt(0)) => score[o] = RInt(-1)
         /\ \A p \in Objects :
              (Scored(p) /\ RGt(screenArea[p].visible, RInt(0))) => RGt(score[p], score[o])

\* both objects scored, one not on screen with a potential area, the other on screen
C22_Witness ==
  /\ \A o \in Objects : Scored(o)
  /\ \E o, p \in Objects :
       /\ REq(screenArea[o].visible, RInt(0))
       /\ RGt(screenArea[o].potential, RInt(0))
       /\ RGt(screenArea[p].visible, RInt(0))

(***************************************************************************)
(* The area of the hull (checked under HullSpec).                          *)
(***************************************************************************)
\* the orderings of a sequence
Orderings(s) ==
  {[i \in 1..Len(s) |-> s[f[i]]] :
     f \in {g \in [1..Len(s) -> 1..Len(s)] : \A i, j \in 1..Len(s) : g[i] = g[j] => i = j}}

\* C23: getSurfaceOnScreen returns the same area for every ordering of the
\* same projected points, and visible returns 0 when fewer than 3 corners
\* remain in front of the camera.
C23_AreaOfTheMultiset ==
  surface # NoScore =>
    /\ Len(InFront(corners)) < 3 => surface = RInt(0)
    /\ Len(InFront(corners)) >= 3 =>
         \A q \in Orderings(InFront(corners)) : getSurfaceOnScreen(q) = surface

(***************************************************************************)
(* The predicted camera (checked under CameraSpec).                        *)
(***************************************************************************)
\* the objects of the live camera and the saved previous ones
LiveAddr ==
  {currentCamera.position, currentCamera.rotation, currentCamera.rotationQuaternion,
   prevPosition, prevRotation, prevRotQuaternion}

\* pos + (pos - prevPos) * (delta / frameDelta), the frame time in seconds
Predicted(pos, prevPos, delta) ==
  add(pos, scale(subtract(pos, prevPos), RDiv(delta, RDiv(RInt(deltaTime), RInt(1000)))))

\* C24: a call of getCameraInTime(delta) returns a camera with vectors of its
\* own whose position is pos + (pos - prevPos) * (delta / frameDelta), for the
\* position of the live camera and the saved one at the call, and changes
\* neither the position and orientation of the live camera nor the saved
\* previous position and rotation: each prediction of a tick is computed from
\* the same values.
C24_PredictionOnACopy ==
  [][futureCamera' # futureCamera \/ (\E a \in Addr \ LiveAddr : heap'[a] # heap[a]) =>
       /\ futureCamera'.position \notin LiveAddr
       /\ futureCamera'.rotation \notin LiveAddr
       /\ futureCamera'.rotationQuaternion \notin LiveAddr
       /\ \A a \in LiveAddr : heap'[a] = heap[a]
       /\ \E delta \in DeltaSamples :
            heap'[futureCamera'.position] =
              Predicted(heap[currentCamera.position], heap[prevPosition], delta)]_vars

\* a prediction was made for a camera that moved since the last frame
C24_Witness ==
  /\ futureCamera # NoCamera
  /\ heap[currentCamera.position] # heap[prevPosition]
  /\ heap[futureCamera.position] # heap[currentCamera.position]

(***************************************************************************)
(* Progress after a failed fetch (checked under StillSpec).                *)
(***************************************************************************)
\* the levels whose import failed: requested, not loaded, nothing in flight
FailedLevels ==
  {ol \in Objects \X LevelIdx :
     asked[ol[1]][ol[2]] /\ ~levels[ol[1]][ol[2]] /\ fetch[ol[1]][ol[2]] = "none"}

\* the levels of the candidate scope of naive1 never requested so far, every
\* object being in the frustum
NotYetRequested ==
  {ol \in Objects \X LevelIdx :
     /\ ol[2] >= currentLevel[ol[1]]
     /\ ol[2] < nb_levels(ol[1])
     /\ ~asked[ol[1]][ol[2]]}

\* C25: once the fetch of a level has failed and the loop runs with nothing
\* in flight, either a fetch is issued later on or no level never requested
\* is left in the candidate scope.
C25_ProgressAfterFailure ==
  (LoopRunning /\ FailedLevels # {} /\ NotYetRequested # {} /\ InFlight = {})
    ~> (InFlight # {} \/ NotYetRequested = {})

(***************************************************************************)
(* Termination of the budgeted strategies (checked under LoadSpec).        *)
(***************************************************************************)
\* C26: when no fetch fails, a pass of Greedy2, Uniform2 or Hybrid2 ends
\* having loaded at least one level, whatever the budget, and once one of
\* these strategies is chosen the state in which checkAllLoaded is true is
\* eventually reached.
C26_BudgetedPassesTerminate ==
  /\ []((pc = "delay" /\ passStrategy \in Budgeted) =>
          /\ importedMeshes # <<>>
          /\ \A i \in 1..Len(importedMeshes) : importedMeshes[i] \in Loaded)
  /\ (chosenStrategy \in Budgeted) ~> checkAllLoaded

\* the terminal state reached at the end of a fallback pass
C26_Witness ==
  /\ pc = "delay"
  /\ passStrategy \in Budgeted
  /\ passPath = "fallback"
  /\ checkAllLoaded

(***************************************************************************)
(* Properties of the selection of proposed1 (checked under Spec).          *)
(***************************************************************************)
\* the candidates whose fetch time is below the horizon: increment > 0
IntegralScored(cs) ==
  {i \in 1..Len(cs) :
     RGt(Increment(cs[i], getBandwidth(bandwidthQueue), getDSpeed(dSpeedQueue)), RInt(0))}

\* the Riemann-sum score of candidate c with the estimates of the state
Proposed1Score(c, utilLater) ==
  RiemannScore(c, utilLater, getBandwidth(bandwidthQueue), getDSpeed(dSpeedQueue))

\* C27: a proposed1 pass in which at least one candidate has a fetch time
\* below the horizon fetches exactly one (object, level), the integral-scored
\* candidate whose score no integral-scored candidate exceeds; a candidate
\* scored instantaneously is fetched only when there is no integral-scored one.
C27_IntegralScoredFirst ==
  [][Starts("Proposed_1") =>
       \A camNow \in Cameras, camLater \in Cameras, utilLater \in [Objects -> UtilVals] :
         (/\ proposed1Pass(camNow, camLater, utilLater)
          /\ IntegralScored(CandidatesOf(camNow, camLater)) # {}) =>
            LET cs == CandidatesOf(camNow, camLater)
            IN \E i \in IntegralScored(cs) :
                 /\ FetchesOnly(cs[i])
                 /\ \A j \in IntegralScored(cs) :
                      ~RGt(Proposed1Score(cs[j], utilLater), Proposed1Score(cs[i], utilLater))]_vars

(***************************************************************************)
(* Properties of the selection of greedy2 (checked under Spec).            *)
(***************************************************************************)
\* the bytes of the upgrade of object o to level target: the size of the target
Charged(o, target) == IF target > currentLevel[o] THEN getLevelSize(o, target) ELSE 0

\* the bytes charged for the entries of us before index i
RECURSIVE ChargedBefore(_, _)
ChargedBefore(us, i) ==
  IF i <= 1 THEN 0
  ELSE ChargedBefore(us, i - 1) + Charged(us[i - 1].object, us[i - 1].nextLevel)

\* C28: the selection of greedy2 keeps the ranked order and gives each object
\* the level reached from its currentLevel by single-level bumps, each level
\* on the way fitting the budget left by the objects ranked before it, up to
\* the top level or to the first level that does not fit; the bytes charged for
\* an upgraded object are the size of its target, and nb_bits is their sum.
C28_GreedyWalkTargets ==
  (LoopRunning /\ Guard) =>
    \A utilNow \in Rankings :
      LET us == Ranked(Objects, utilNow)
          sel == greedy2Select(utilNow)
          g == sel.utilities
      IN /\ Len(g) = Len(us)
         /\ sel.nb_bits = ChargedBefore(g, Len(g) + 1)
         /\ \A i \in 1..Len(g) :
              LET o == g[i].object
                  target == g[i].nextLevel
                  left == ChargedBefore(g, i)
              IN /\ o = us[i].object
                 /\ target >= currentLevel[o]
                 /\ target <= nb_levels(o) - 1
                 /\ \A k \in (currentLevel[o] + 1)..target :
                      ~RGt(RInt(left + getLevelSize(o, k)), PassBudget)
                 /\ \/ target = nb_levels(o) - 1
                    \/ RGt(RInt(left + getLevelSize(o, target + 1)), PassBudget)

\* a greedy2 pass that raised an object by two levels and then another object
C28_Witness ==
  /\ pc = "fetch"
  /\ passStrategy = "Greedy_2"
  /\ passPath = "normal"
  /\ Len(utilities) = 2
  /\ utilities[1].nextLevel >= currentLevel[utilities[1].object] + 2
  /\ utilities[2].nextLevel > currentLevel[utilities[2].object]

(***************************************************************************)
(* Properties of the two phases of hybrid2 (checked under Spec).           *)
(***************************************************************************)
\* the entries of sel from index i to index j
Entries(sel, i, j) == [k \in 1..(j - i + 1) |-> sel[i + k - 1]]

\* C29: a hybrid2 pass lists the objects in the frustum before the others;
\* the targets of the first are those of the lock-step sweeps of uniform2 on
\* them alone with the whole budget, the targets of the others are those of
\* the greedy walk with the bytes of the first already counted, each level on
\* the way fitting what is left; and the fetches of a pass are issued in the
\* order of this list, those of the objects in the frustum first.
C29_VisibleBeforeInvisible ==
  [][/\ Starts("Hybrid_2") =>
          \A cam \in Cameras, utilNow \in Rankings :
            hybrid2Pass(cam, utilNow) =>
              LET sel == utilities'
                  nv == Cardinality(getVisibleObjects(cam))
                  vis == Entries(sel, 1, nv)
                  inv == Entries(sel, nv + 1, Len(sel))
                  spent == ChargedBefore(vis, nv + 1)
              IN /\ \A i \in 1..Len(sel) : (i <= nv) <=> isInFrustum(sel[i].object, cam)
                 /\ vis = UniformLoop(Ranked(getVisibleObjects(cam), utilNow), 1, 0,
                                      PassBudget).utilities
                 /\ ~RGt(RInt(spent), PassBudget)
                 /\ nb_bits' = spent + ChargedBefore(inv, Len(inv) + 1)
                 /\ \A i \in 1..Len(inv) :
                      LET o == inv[i].object
                          left == spent + ChargedBefore(inv, i)
                      IN /\ \A k \in (currentLevel[o] + 1)..inv[i].nextLevel :
                              ~RGt(RInt(left + getLevelSize(o, k)), PassBudget)
                         /\ \/ inv[i].nextLevel = nb_levels(o) - 1
                            \/ RGt(RInt(left + getLevelSize(o, inv[i].nextLevel + 1)),
                                   PassBudget)
                 /\ \A o \in Objects, l \in LevelIdx :
                      ioCount'[o][l] # ioCount[o][l] =>
                        /\ pc' = "fetch"
                        /\ sel[planIdx'].object = o
     /\ (import_started /\ passStrategy = "Hybrid_2") =>
          \A o \in Objects, l \in LevelIdx :
            ioCount'[o][l] # ioCount[o][l] =>
              /\ pc' = "fetch"
              /\ utilities[planIdx'].object = o
              /\ planIdx' > planIdx]_vars

\* a hybrid2 pass just started for a camera with one object in its frustum,
\* both objects raised, the fetch of the one in the frustum issued
C29_Witness ==
  /\ pc = "fetch"
  /\ passStrategy = "Hybrid_2"
  /\ passPath = "normal"
  /\ planIdx = 1
  /\ importedMeshes = <<>>
  /\ Len(utilities) = 2
  /\ \A i \in 1..2 : utilities[i].nextLevel > currentLevel[utilities[i].object]
  /\ \E utilNow \in Rankings :
       hybrid2Select({utilities[1].object}, utilNow).utilities = utilities

(***************************************************************************)
(* The candidate scope of naive1, greedy1 and proposed1 (checked under     *)
(* ScopeSpec).                                                             *)
(***************************************************************************)
\* the step is a pass of the one-at-a-time strategy s with these inputs
OnePass(s, camNow, camLater, util) ==
  CASE s = "Naive_1" -> naive1Pass(camNow, camLater, util)
    [] s = "Greedy_1" -> greedy1Pass(camNow, camLater, util)
    [] s = "Proposed_1" -> proposed1Pass(camNow, camLater, util)

\* the step issues a fetch for a level of object o
FetchIssuedFor(o) == \E l \in LevelIdx : ioCount'[o][l] # ioCount[o][l]

\* C30: a pass of naive1, greedy1 or proposed1 issues its fetch when it
\* starts and never for an object that is neither in the frustum of the
\* camera at that moment nor in the frustum of the camera predicted at the
\* horizon; while such a pass is in progress no other fetch is issued.
C30_FetchesInScope ==
  [][/\ (~import_started /\ import_started' /\ chosenStrategy \in OneAtATime) =>
          \A o \in Objects : FetchIssuedFor(o) =>
            \A camNow \in Cameras, camLater \in Cameras :
              (~isInFrustum(o, camNow) /\ ~isInFrustum(o, camLater)) =>
                \A util \in [Objects -> UtilVals] :
                  ~OnePass(chosenStrategy, camNow, camLater, util)
     /\ (import_started /\ passStrategy \in OneAtATime) =>
          \A o \in Objects : ~FetchIssuedFor(o)]_vars

\* a pass of one of the three strategies fetching a level of an object that
\* only the camera predicted at the horizon sees
C30_Witness ==
  /\ pc = "fetch"
  /\ passStrategy \in OneAtATime
  /\ Len(utilities) = 1
  /\ \E camNow \in Cameras, camLater \in Cameras :
       /\ ~isInFrustum(utilities[1].object, camNow)
       /\ isInFrustum(utilities[1].object, camLater)
       /\ camNow # {}
       /\ \E i \in 1..Len(CandidatesOf(camNow, camLater)) :
            CandidatesOf(camNow, camLater)[i] = utilities[1]

(***************************************************************************)
(* Properties of the fetches of the passes (checked under Spec).           *)
(***************************************************************************)
\* C31: once the catalog is initialised (the render loop runs) at most one
\* import is in flight at any time, it is the import the pass in flight
\* awaits, and a step that issues a fetch finds no other import in flight
\* but the one that this very step ends.
C31_OneFetchInFlight ==
  /\ [](LoopRunning =>
          /\ Cardinality(InFlight) <= 1
          /\ \A ol \in InFlight :
               import_started /\ pc = "fetch" /\ running = 1 /\ PassTarget = ol)
  /\ [][(LoopRunning /\ ioCount' # ioCount) =>
          /\ Cardinality(InFlight') = 1
          /\ InFlight \cap InFlight' = {}
          /\ \A ol \in InFlight' : ioCount'[ol[1]][ol[2]] = ioCount[ol[1]][ol[2]] + 1]_vars

\* a pass of a multi-upgrade strategy awaits its second fetch, the first
\* one having completed
C31_Witness ==
  /\ LoopRunning
  /\ pc = "fetch"
  /\ passStrategy \in Budgeted
  /\ passPath = "normal"
  /\ planIdx = 2
  /\ Len(importedMeshes) = 1
  /\ Cardinality(InFlight) = 1

\* the pass returns from executeStrategy to anim_import
Returns == pc # "delay" /\ pc' = "delay"

\* level l of object o is the one the object displays
Displayed(o, l) ==
  /\ currentLevel'[o] = l
  /\ \A k \in LevelIdx : enabled'[o][k] <=> k = l

\* C32: once the render loop runs, every fetch a pass issues is for a level
\* strictly above the currentLevel the object has at that moment, hence
\* above each of its loaded levels and never for a level below a loaded one;
\* the level a completed fetch loads becomes the displayed level of its
\* object; the entries a pass selects hold the current level of their object
\* or a higher one (import is called for the higher ones, the fallback calls
\* it for the level after the current one); and each mesh in the list
\* executeStrategy returns is the displayed mesh of its object when the call
\* returns.
C32_RequestsAboveCurrent ==
  [][LoopRunning =>
       /\ \A o \in Objects, l \in LevelIdx :
            /\ ioCount'[o][l] # ioCount[o][l] =>
                 /\ l > currentLevel'[o]
                 /\ \A k \in LevelIdx : levels'[o][k] => k < l
            /\ (levels'[o][l] /\ ~levels[o][l]) => Displayed(o, l)
       /\ (~import_started /\ import_started') =>
            \A i \in 1..Len(utilities') :
              LET o == utilities'[i].object
                  l == utilities'[i].nextLevel
              IN /\ l >= currentLevel[o]
                 /\ passPath' = "single" => l > currentLevel[o]
                 /\ passPath' = "fallback" => l = currentLevel[o]
       /\ Returns =>
            \A i \in 1..Len(importedMeshes') :
              Displayed(importedMeshes'[i][1], importedMeshes'[i][2])]_vars

\* object 1 went from level 0 to level 2 in an earlier pass; a later pass
\* has a fetch in flight, which is not for the skipped level 1
C32_Witness ==
  /\ currentLevel[1] = 2
  /\ ~levels[1][1]
  /\ ~asked[1][1]
  /\ pc = "fetch"
  /\ importedMeshes = <<>>
  /\ InFlight = {<<2, 1>>}

\* C33: the entries a pass selects are for pairwise distinct objects and do
\* not change while the pass runs; every fetch of the pass is issued for the
\* entry at a greater index than the previous one, for the level that entry
\* holds (the level after it in the fallback), and for no other level: an
\* object is fetched at most once in a pass, at its final target.
C33_OneFetchPerObject ==
  [][/\ (~import_started /\ import_started') =>
          \A i \in 1..Len(utilities'), j \in 1..Len(utilities') :
            utilities'[i].object = utilities'[j].object => i = j
     /\ (import_started /\ import_started') =>
          utilities' = utilities /\ passPath' = passPath
     /\ (LoopRunning /\ ioCount' # ioCount) =>
          /\ pc' = "fetch"
          /\ planIdx' > (IF import_started THEN planIdx ELSE 0)
          /\ \A o \in Objects, l \in LevelIdx :
               ioCount'[o][l] =
                 ioCount[o][l] + (IF <<o, l>> = PassTarget' THEN 1 ELSE 0)]_vars

\* a budgeted pass fetches level 2 of object 1, which displays level 0 and
\* whose level 1 was never fetched
C33_Witness ==
  /\ pc = "fetch"
  /\ passStrategy \in Budgeted
  /\ passPath = "normal"
  /\ PassTarget = <<1, 2>>
  /\ fetch[1][2] # "none"
  /\ currentLevel[1] = 0
  /\ ioCount[1][1] = 0

(***************************************************************************)
(* Properties of the catalog while a pass runs (checked under Spec).       *)
(***************************************************************************)
\* getCurrentMesh / getLevel(currentLevel) of object o return a mesh
HasCurrentMesh(o) ==
  /\ initialized[o]
  /\ currentLevel[o] >= 0
  /\ levels[o][currentLevel[o]]
  /\ levels[o][0]

\* C34: a pass starts only in a state where every object of the catalog is
\* initialised, has level 0 loaded and a currentLevel >= 0 whose mesh is
\* loaded, and this stays so as long as the pass runs: the filters of
\* getVisibleObjects and getNotVisibleObjects find a current mesh for every
\* object.
C34_LevelZeroBeforeFirstPass ==
  /\ []((import_started \/ running > 0) => \A o \in Objects : HasCurrentMesh(o))
  /\ [][(~import_started /\ import_started') =>
          /\ \A o \in Objects : HasCurrentMesh(o) /\ fetch[o][0] = "none"
          /\ \A o \in Objects : initPhase[o] = "ok"]_vars

\* the first pass: it started right after the initialisation, nothing but
\* the levels 0 being loaded
C34_Witness ==
  /\ import_started
  /\ pc = "fetch"
  /\ \A o \in Objects : currentLevel[o] = 0 /\ \A l \in LevelIdx : levels[o][l] <=> l = 0

(***************************************************************************)
(* Properties of the rankings (checked under Spec).                        *)
(***************************************************************************)
ObjectsOf(us) == [i \in 1..Len(us) |-> us[i].object]

\* r lists the objects of S by decreasing utility, objects of equal utility
\* in the order of the catalog: there is exactly one such sequence
IsRanking(r, S, u) ==
  /\ Len(r) = Cardinality(S)
  /\ {r[i] : i \in 1..Len(r)} = S
  /\ \A i \in 1..Len(r), j \in 1..Len(r) :
       i < j => \/ u[r[i]] > u[r[j]]
                \/ u[r[i]] = u[r[j]] /\ r[i] < r[j]

\* idx is 0 or the first index of a greatest score
FirstBest(scores, idx) ==
  idx # 0 =>
    \A j \in 1..Len(scores) :
      /\ j < idx => RGt(scores[idx], scores[j])
      /\ j > idx => ~RGt(scores[j], scores[idx])

\* the candidates proposed1 scores with its integral (increment > 0)
Integral(c) ==
  RGt(Increment(c, getBandwidth(bandwidthQueue), getDSpeed(dSpeedQueue)), RInt(0))

\* the score proposed1 compares candidate c by, within its kind
KindScore(c, utilLater) ==
  IF Integral(c)
  THEN RiemannScore(c, utilLater, getBandwidth(bandwidthQueue), getDSpeed(dSpeedQueue))
  ELSE GreedyScore(c, utilLater, getBandwidth(bandwidthQueue), getDSpeed(dSpeedQueue))

\* C35: in every state where a pass can start, for every camera and all
\* utilities: the arrays of greedy2, uniform2 and hybrid2 (each partition of
\* hybrid2) list their objects by decreasing utility with equal utilities
\* in catalog order, and the candidate naive1, greedy1 or proposed1 selects
\* is the first one with the greatest score (for proposed1: among the
\* candidates scored the same way): the selection is fixed by the state of
\* the objects, the utilities and the two rate estimates.
C35_StableRanking ==
  (LoopRunning /\ Guard) =>
    /\ chosenStrategy = "Greedy_2" =>
         \A u \in [Objects -> UtilVals] :
           IsRanking(ObjectsOf(greedy2Select(u).utilities), Objects, u)
    /\ chosenStrategy = "Uniform_2" =>
         \A u \in [Objects -> UtilVals] :
           IsRanking(ObjectsOf(uniform2Select(u).utilities), Objects, u)
    /\ chosenStrategy = "Hybrid_2" =>
         \A cam \in Cameras, u \in [Objects -> UtilVals] :
           LET sel == ObjectsOf(hybrid2Select(cam, u).utilities)
               nv == Cardinality(getVisibleObjects(cam))
           IN /\ IsRanking(SubSeq(sel, 1, nv), getVisibleObjects(cam), u)
              /\ IsRanking(SubSeq(sel, nv + 1, Len(sel)), getNotVisibleObjects(cam), u)
    /\ chosenStrategy \in OneAtATime =>
         \A camNow \in Cameras, camLater \in Cameras, u \in [Objects -> UtilVals] :
           LET cs == CandidatesOf(camNow, camLater)
           IN CASE chosenStrategy = "Naive_1" ->
                     FirstBest([i \in 1..Len(cs) |-> NaiveScore(cs[i], u)],
                               NaiveIdx(camNow, camLater, u))
                [] chosenStrategy = "Greedy_1" ->
                     FirstBest([i \in 1..Len(cs) |-> Greedy1Score(cs[i], u)],
                               GreedyIdx(camNow, camLater, u))
                [] chosenStrategy = "Proposed_1" ->
                     LET idx == ProposedIdx(cs, u, getBandwidth(bandwidthQueue),
                                            getDSpeed(dSpeedQueue))
                     IN idx # 0 =>
                          \A j \in 1..Len(cs) :
                            (Integral(cs[j]) <=> Integral(cs[idx])) =>
                              /\ j < idx => RGt(KindScore(cs[idx], u), KindScore(cs[j], u))
                              /\ j > idx => ~RGt(KindScore(cs[j], u), KindScore(cs[idx], u))

\* a greedy2 pass that ranked the two objects with equal utilities: object
\* 1 comes first and is fetched first
C35_Witness ==
  /\ pc = "fetch"
  /\ passStrategy = "Greedy_2"
  /\ passPath = "normal"
  /\ importedMeshes = <<>>
  /\ planIdx = 1
  /\ ObjectsOf(utilities) = <<1, 2>>
  /\ \E u \in [Objects -> UtilVals] :
       u[1] = u[2] /\ greedy2Select(u).utilities = utilities

(***************************************************************************)
(* Frame of the queries (checked under QuerySpec).                         *)
(***************************************************************************)
\* the step returns from getVisibleObjects, getNotVisibleObjects or calcUtility
QueryReturns == visibles' # visibles \/ score' # score

\* C36: a call of getVisibleObjects, getNotVisibleObjects or calcUtility
\* changes nothing of the objects (asked, levels, enabled meshes,
\* currentLevel, imports in flight), of the two queues, of import_started
\* and of the pass, and leaves every vector and quaternion of the cameras,
\* the rotationQuaternion of the XR camera included, as it was on entry.
C36_QueriesChangeNothing ==
  [][QueryReturns =>
       /\ UNCHANGED <<initPhase, objVars, queueVars, import_started, chosenStrategy, passVars>>
       /\ \A a \in Addr : heap'[a] = heap[a]
       /\ futureCamera' = futureCamera]_vars

\* getVisibleObjects returned for the XR camera, which had turned by 10
\* degrees and still has that rotation
C36_Witness ==
  /\ isWebXR
  /\ visibles.by = "getVisibleObjects"
  /\ visibles.cam = currentCamera.position
  /\ visibles.objects # <<>>
  /\ heap[currentCamera.rotationQuaternion] = RInt(10)

(***************************************************************************)
(* C37: within one render tick the scheduling call makes all of its        *)
(* viewpoint predictions first, each one an extrapolation from the camera  *)
(* of this frame and the snapshot saved by the previous tick, and the      *)
(* previous-frame snapshot is taken afterwards, exactly once: a tick ends  *)
(* with the snapshot equal to the camera of the frame, the camera itself   *)
(* untouched, and the snapshot changes in no other step.                   *)
(***************************************************************************)
\* a frame whose scheduling call started a pass
Schedules == ~import_started /\ import_started'

\* the prediction delays a pass of the chosen strategy can ask for
DelaysNow ==
  IF chosenStrategy = "Naive_1" THEN {RInt(HORIZON)}
  ELSE {RInt(HORIZON)} \cup
       {FetchTime(getLevelSize(o, l), getBandwidth(bandwidthQueue), getDSpeed(dSpeedQueue)) :
          o \in Objects, l \in LevelIdx}

\* the snapshot holds the pose of the camera
SnapshotIsCamera(h) ==
  /\ h[prevPosition] = h[currentCamera.position]
  /\ IF isWebXR
     THEN h[prevRotQuaternion] = h[currentCamera.rotationQuaternion]
     ELSE h[prevRotation] = h[currentCamera.rotation]

C37_SnapshotAfterPredictions ==
  [][/\ Schedules =>
          /\ \E delta \in DelaysNow :
               /\ heap'[clone(currentCamera).position] =
                    Predicted(heap[currentCamera.position], heap[prevPosition], delta)
               /\ \A a \in FutureAddr : heap'[a] = CameraInTime(heap, delta)[a]
          /\ SnapshotIsCamera(heap')
          /\ \A a \in CameraAddr : heap'[a] = heap[a]
     /\ (\E a \in PrevAddr : heap'[a] # heap[a]) =>
          /\ SnapshotIsCamera(heap')
          /\ \A a \in CameraAddr : heap'[a] = heap[a]
     /\ (\E a \in FutureAddr : heap'[a] # heap[a]) => Schedules
    ]_vars

\* a pass was started by a frame that followed a move of the camera: the
\* prediction left the camera's position, and the snapshot has caught up
C37_Witness ==
  /\ pc = "fetch"
  /\ futureCamera # NoCamera
  /\ heap[currentCamera.position] # V(0, 0)
  /\ heap[futureCamera.position] # heap[currentCamera.position]
  /\ SnapshotIsCamera(heap)

(***************************************************************************)
(* C38: the level-raising loop of uniform2, which is also the visible      *)
(* phase of hybrid2, ends after at most max(nb_levels of the ranked        *)
(* objects) sweeps, whatever the budget, the ranking, the ranked set and   *)
(* the levels loaded, also when a sweep sets change for an object whose    *)
(* target it does not raise. With nothing ranked the first sweep ends it.  *)
(***************************************************************************)
RECURSIVE LoopEndsWithin(_, _, _, _, _)
\* while (change) leaves within k sweeps, the shared level starting at lvl
LoopEndsWithin(us, lvl, k, bits, bud) ==
  IF k = 0 THEN FALSE
  ELSE LET s == UniformSweep(us, 1, lvl, bits, FALSE, bud)
       IN IF s.change
          THEN LoopEndsWithin(s.utilities, lvl + 1, k - 1, s.nb_bits, bud)
          ELSE TRUE

RECURSIVE MaxNbLevels(_, _)
\* the largest getNumberOfLevels() among the entries i.. of the ranked array
MaxNbLevels(us, i) ==
  IF i > Len(us) THEN 1
  ELSE LET rest == MaxNbLevels(us, i + 1)
       IN IF nb_levels(us[i].object) > rest THEN nb_levels(us[i].object) ELSE rest

\* budgets beside the one of the pass: nothing, one level, everything
SweepBudgets == {PassBudget, RInt(0), RInt(40), RInt(10000)}

\* a sweep that sets change and raises no target
IdleSweep(us, lvl, bits, bud) ==
  LET s == UniformSweep(us, 1, lvl, bits, FALSE, bud)
  IN s.change /\ s.utilities = us

C38_SweepsBounded ==
  (LoopRunning /\ Guard) =>
    \A ranked \in Cameras, r \in Rankings, bud \in SweepBudgets :
      LET us == Ranked(ranked, r)
      IN /\ LoopEndsWithin(us, 1, MaxNbLevels(us, 1), 0, bud)
         /\ UniformSweeps(us, 1, MaxNbLevels(us, 1), 0, bud) = UniformLoop(us, 1, 0, bud).utilities

\* uniform2 is about to run and its first sweep sets change without raising
\* a target, the loop going on to a second sweep
C38_Witness ==
  /\ LoopRunning
  /\ Guard
  /\ chosenStrategy = "Uniform_2"
  /\ \E r \in Rankings :
       /\ IdleSweep(Ranked(Objects, r), 1, 0, PassBudget)
       /\ ~LoopEndsWithin(Ranked(Objects, r), 1, 1, 0, PassBudget)

(***************************************************************************)
(* C39: computeConvexHull terminates for every input of at least one       *)
(* point, duplicated or collinear points included, and returns a list made *)
(* only of input points that starts with a leftmost point.                 *)
(***************************************************************************)
RECURSIVE WrapEnds(_, _, _)
\* the do-while comes back to points[0] within fuel iterations
WrapEnds(points, pointOnHull, fuel) ==
  LET endpoint == NextEndpoint(points, pointOnHull, 1, 1)
  IN IF endpoint = 1 THEN TRUE
     ELSE IF fuel = 0 THEN FALSE
     ELSE WrapEnds(points, endpoint, fuel - 1)

\* the x and y of the points of an array
Points(points) == {<<points[i].x, points[i].y>> : i \in 1..Len(points)}

\* no point of the array is further left than p
Leftmost(p, points) == \A i \in 1..Len(points) : ~RGt(p.x, points[i].x)

====
